---- MODULE Spec2Model ----
(***************************************************************************)
(* Model of the multi-account coordinator of src/AccountManager.py:        *)
(* selector resolution (_resolve_account) and the roster cache             *)
(* (_refresh_accounts).                                                    *)
(*                                                                         *)
(* Python strings are sequences of one-character strings.  A user's        *)
(* username that is None or "" is the empty sequence (the code tests it    *)
(* with `if uname`, so both behave alike).  Python's 0-based list indices  *)
(* are kept: the entry at index i of a list is element i + 1 of the        *)
(* sequence that models it.                                                *)
(***************************************************************************)
EXTENDS Integers, Sequences, FiniteSets

VARIABLES
    selector,            \* _resolve_account: argument `selector`
    accounts,            \* _resolve_account: argument `accounts`
    resolved,            \* _resolve_account: its outcome
    pc,                  \* "ready" before the call, "done" after it
    now,                 \* time.monotonic()
    _client,             \* self._client: the coordinator's own session
    allclients,          \* self.allclients as the host sets it (<<>>: unset or empty)
    userOf,              \* the identity each session's get_me() reports
    _accounts_cache,     \* self._accounts_cache
    _accounts_cache_ts,  \* self._accounts_cache_ts
    call,                \* the invocations of _refresh_accounts in progress
    started,             \* history: how many invocations have begun
    lastCall,            \* history: the invocation that returned last
    chatUsername,        \* _ensure_in_chat: whether `chat` has a public username
    targetIsMain,        \* _ensure_in_chat: whether `client` is self._client
    member,              \* whether the target account is in the chat
    epc,                 \* _ensure_in_chat: the request awaited, or "idle"
    elog,                \* history: the requests of this invocation, in order
    eresult,             \* what the last invocation returned
    eruns,               \* history: how many invocations have begun
    eprev,               \* history: what the invocation before returned
    command,             \* the command the user sent
    args,                \* utils.get_args(message): its arguments
    isReply,             \* whether the message replies to another message
    snapshot,            \* `accounts`: what _refresh_accounts returns to it
    cpc,                 \* the await the handler is at
    silent,              \* the handler's `silent`
    targets,             \* roster indices of the accounts the loop runs over
    count,               \* `repeat` (say), `count` (spamacc)
    iter,                \* iterations of the handler's loop completed
    success,             \* `success` (report), `ok` (join)
    reason,              \* report: the reason whose request is awaited
    trace,               \* history: requests and pauses, in order
    replies,             \* history: utils.answer calls, in order
    deleted,             \* history: message.delete() was called
    _update_lock,        \* self._update_lock: the task that holds it
    _waiters,            \* self._update_lock._waiters, first come first
    upc,                 \* where each task that runs _check_self_update is
    ulast,               \* history: how the timer's last check ended
    uagain,              \* history: the timer checked again after a failure
    ureport,             \* history: where a failed check was reported
    enabled,             \* RouletteDaily: the stored "enabled"
    last_mark,           \* RouletteDaily: the stored "last_mark"
    times,               \* RouletteDaily: self.config["times"]
    clock,               \* datetime.now(), as a place in Moments
    rpc,                 \* RouletteDaily._loop: where it is
    mark,                \* RouletteDaily._loop: its `mark`
    posted,              \* history: the send_message calls of _send_pair
    ticks,               \* history: how many ticks of _loop have begun
    rlast,               \* history: how the last tick of _loop ended
    ragain,              \* history: a tick began after a failed one
    rreport,             \* history: where a failed tick was reported
    spc,                 \* RouletteDaily.rsendcmd: where it is
    rcmds,               \* history: how many RouletteDaily commands were sent
    ranswer,             \* history: the last answer of a RouletteDaily command
    _task,               \* RouletteDaily: self._task, a place in rtasks or 0
    rtasks,              \* the _loop tasks created so far and their states
    _update_task,        \* AccountManager: self._update_task, or 0
    utasks,              \* the _auto_update_loop tasks created so far
    readying,            \* AccountManager.client_ready calls awaiting line 217
    readies,             \* history: client_ready calls begun, per module
    saved_uids,          \* Genshin: the database value under DB_UID_MAP_KEY
    default_uid,         \* Genshin: the database value under DB_DEFAULT_UID_KEY
    gcmds,               \* history: Genshin commands handled
    ganswer              \* history: the last answer of a Genshin command

resolveVars == <<selector, accounts, resolved, pc>>
refreshVars == <<now, _client, allclients, userOf, _accounts_cache,
                 _accounts_cache_ts, call, started, lastCall>>
ensureVars == <<chatUsername, targetIsMain, member, epc, elog, eresult,
                eruns, eprev>>
commandVars == <<command, args, isReply, snapshot, cpc, silent, targets,
                 count, iter, success, reason, trace, replies, deleted>>
updateVars == <<_update_lock, _waiters, upc, ulast, uagain, ureport>>
rouletteVars == <<enabled, last_mark, times, clock, rpc, mark, posted, ticks,
                  rlast, ragain, rreport>>
rcmdVars == <<spc, rcmds, ranswer>>
lifeVars == <<_task, rtasks, _update_task, utasks, readying, readies>>
genshinVars == <<saved_uids, default_uid, gcmds, ganswer>>
vars == <<resolveVars, refreshVars, ensureVars, commandVars, updateVars,
          rouletteVars, rcmdVars, lifeVars,
          genshinVars>>

\* What the actions of one part of the model leave alone.
notResolveVars ==
    <<refreshVars, ensureVars, commandVars, updateVars, rouletteVars,
      rcmdVars, lifeVars,
      genshinVars>>
notRefreshVars ==
    <<resolveVars, ensureVars, commandVars, updateVars, rouletteVars,
      rcmdVars, lifeVars,
      genshinVars>>
notEnsureVars ==
    <<resolveVars, refreshVars, commandVars, updateVars, rouletteVars,
      rcmdVars, lifeVars,
      genshinVars>>
notCommandVars ==
    <<resolveVars, refreshVars, ensureVars, updateVars, rouletteVars,
      rcmdVars, lifeVars,
      genshinVars>>
notUpdateVars ==
    <<resolveVars, refreshVars, ensureVars, commandVars, rouletteVars,
      rcmdVars, lifeVars,
      genshinVars>>
notLifeVars ==
    <<resolveVars, refreshVars, ensureVars, commandVars, updateVars,
      rouletteVars, rcmdVars,
      genshinVars>>
notGenshinVars ==
    <<resolveVars, refreshVars, ensureVars, commandVars, updateVars,
      rouletteVars, rcmdVars, lifeVars>>
\* RouletteDaily's commands write the variables of its loop too.
notRouletteCmdVars ==
    <<resolveVars, refreshVars, ensureVars, commandVars, updateVars,
      lifeVars,
      genshinVars>>
notRouletteVars ==
    <<resolveVars, refreshVars, ensureVars, commandVars, updateVars,
      rcmdVars, lifeVars,
      genshinVars>>

(***************************************************************************)
(* Bounds of the checked instances.                                        *)
(***************************************************************************)
MaxSelLen == 3           \* longest selector drawn
MaxRoster == 3           \* longest roster drawn

(***************************************************************************)
(* Characters.  SUP2 stands for U+00B2 (superscript two): str.isdigit()    *)
(* accepts it, int() does not.  ARABIC3 stands for U+0663 (Arabic-Indic    *)
(* digit three), one of the decimal digits outside ASCII: str.isdigit()    *)
(* accepts it and int() reads it as 3.                                     *)
(***************************************************************************)
SUP2 == "sup2"
ARABIC3 == "arabic3"
DecimalChars ==
    {"0", "1", "2", "3", "4", "5", "6", "7", "8", "9", ARABIC3}
DigitChars == DecimalChars \cup {SUP2}

DigitVal(c) ==
    CASE c = "0" -> 0 [] c = "1" -> 1 [] c = "2" -> 2 [] c = "3" -> 3
      [] c = "4" -> 4 [] c = "5" -> 5 [] c = "6" -> 6 [] c = "7" -> 7
      [] c = "8" -> 8 [] c = "9" -> 9 [] c = ARABIC3 -> 3

\* str.isdigit(): non-empty and every character is a digit character.
isdigit(s) == Len(s) > 0 /\ \A i \in 1..Len(s) : s[i] \in DigitChars

\* The characters int() reads as decimal digits.
isdecimal(s) == Len(s) > 0 /\ \A i \in 1..Len(s) : s[i] \in DecimalChars

LowerChar(c) ==
    CASE c = "A" -> "a" [] c = "B" -> "b" [] c = "F" -> "f" [] c = "O" -> "o"
      [] c = "S" -> "s"
      [] OTHER -> c

\* str.lower()
lower(s) == [i \in 1..Len(s) |-> LowerChar(s[i])]

\* str.lstrip(ch): every leading occurrence of ch is removed.
RECURSIVE lstrip(_, _)
lstrip(s, ch) == IF s # <<>> /\ Head(s) = ch THEN lstrip(Tail(s), ch) ELSE s

\* str.rstrip(ch): every trailing occurrence of ch is removed.
RECURSIVE rstrip(_, _)
rstrip(s, ch) ==
    IF s # <<>> /\ s[Len(s)] = ch THEN rstrip(SubSeq(s, 1, Len(s) - 1), ch)
    ELSE s

\* str.strip(): blanks at both ends are removed.
strip(s) == rstrip(lstrip(s, " "), " ")

RECURSIVE DecValue(_)
DecValue(s) ==
    IF s = <<>> THEN 0
    ELSE 10 * DecValue(SubSeq(s, 1, Len(s) - 1)) + DigitVal(s[Len(s)])

\* int(text): blanks around the numeral are ignored; the numeral is an
\* optional single sign, then decimal digits (those outside ASCII too), where
\* one underscore may stand between two digits; anything else raises
\* ValueError (ok = FALSE).
int(s) ==
    LET grouped(body) ==
            /\ body # <<>>
            /\ \A i \in 1..Len(body) : body[i] \in DecimalChars \cup {"_"}
            /\ body[1] # "_" /\ body[Len(body)] # "_"
            /\ \A i \in 1..(Len(body) - 1) :
                  ~(body[i] = "_" /\ body[i + 1] = "_")
        decimal(c) == c \in DecimalChars
        read(sign, body) ==
            IF grouped(body)
            THEN [ok |-> TRUE,
                  value |-> sign * DecValue(SelectSeq(body, decimal))]
            ELSE [ok |-> FALSE, value |-> 0]
        signed(numeral) ==
            IF numeral # <<>> /\ Head(numeral) = "-"
            THEN read(0 - 1, Tail(numeral))
            ELSE IF numeral # <<>> /\ Head(numeral) = "+"
                 THEN read(1, Tail(numeral))
                 ELSE read(1, numeral)
    IN  signed(strip(s))

DigitOf(d) ==
    CASE d = 0 -> "0" [] d = 1 -> "1" [] d = 2 -> "2" [] d = 3 -> "3"
      [] d = 4 -> "4" [] d = 5 -> "5" [] d = 6 -> "6" [] d = 7 -> "7"
      [] d = 8 -> "8" [] d = 9 -> "9"

RECURSIVE StrNat(_)
StrNat(n) ==
    IF n < 10 THEN <<DigitOf(n)>>
    ELSE Append(StrNat(n \div 10), DigitOf(n % 10))

\* Python's str(k) of an integer k.
str(k) == IF k < 0 THEN <<"-">> \o StrNat(0 - k) ELSE StrNat(k)

(***************************************************************************)
(* Outcomes of _resolve_account: an index, None, or a raised ValueError.   *)
(***************************************************************************)
Found(i) == [kind |-> "index", index |-> i]
None == [kind |-> "None", index |-> 0 - 1]
ValueError == [kind |-> "ValueError", index |-> 0 - 1]

\* for i, acc in enumerate(accounts): if <match>: return i.  `hits` are the
\* (1-based) places of the matching entries; the loop returns at the first.
FirstIndex(hits) ==
    IF hits = {} THEN None
    ELSE Found((CHOOSE i \in hits : \A j \in hits : i <= j) - 1)

\* "Number position (1-based)": the index, or None to fall through.
ByPosition(raw, accs) ==
    IF isdigit(raw)
    THEN LET idx == int(raw)
         IN  IF ~idx.ok THEN ValueError
             ELSE IF 1 <= idx.value /\ idx.value <= Len(accs)
                  THEN Found(idx.value - 1)
                  ELSE None
    ELSE None

\* Mutation of ByUserId: the sign is dropped, uid = int(raw.lstrip("-")).
ByUserId_Unsigned(raw, accs) ==
    IF isdigit(lstrip(raw, "-"))
    THEN LET uid == int(lstrip(raw, "-"))
         IN  IF ~uid.ok THEN ValueError
             ELSE FirstIndex({i \in 1..Len(accs) :
                                accs[i].user.id = uid.value})
    ELSE None

\* "By user id": the index, or None to fall through.
ByUserId(raw, accs) ==
    IF isdigit(lstrip(raw, "-"))
    THEN LET uid == int(raw)
         IN  IF ~uid.ok THEN ValueError
             ELSE FirstIndex({i \in 1..Len(accs) :
                                accs[i].user.id = uid.value})
    ELSE None

\* Mutation of ByUsername: the username is compared without .lower().
ByUsername_CaseSensitive(sel, accs) ==
    FirstIndex({i \in 1..Len(accs) :
                    /\ accs[i].user.username # <<>>
                    /\ accs[i].user.username = sel})

\* "By username"
ByUsername(sel, accs) ==
    FirstIndex({i \in 1..Len(accs) :
                    /\ accs[i].user.username # <<>>
                    /\ lower(accs[i].user.username) = sel})

\* sel = selector.lower().lstrip("@")
Normalize(s) == lstrip(lower(s), "@")

\* Mutation of _resolve_account: the user id is tried before the position.
_resolve_account_IdFirst(sel0, accs) ==
    IF sel0 = <<>> THEN None
    ELSE LET u == ByUserId(sel0, accs)
             p == ByPosition(sel0, accs)
         IN  IF u # None THEN u
             ELSE IF p # None THEN p
             ELSE ByUsername(Normalize(sel0), accs)

_resolve_account(sel0, accs) ==
    IF sel0 = <<>> THEN None
    ELSE LET raw == sel0
             sel == Normalize(sel0)
             p   == ByPosition(raw, accs)
             u   == ByUserId(raw, accs)
         IN  IF p # None THEN p
             ELSE IF u # None THEN u
             ELSE ByUsername(sel, accs)

(***************************************************************************)
(* The inputs drawn for _resolve_account.                                  *)
(***************************************************************************)
Alphabet == {"0", "1", "2", "-", "@", "a", "A", SUP2}

RECURSIVE SeqsUpTo(_, _)
SeqsUpTo(S, n) ==
    IF n = 0 THEN {<<>>}
    ELSE LET shorter == SeqsUpTo(S, n - 1)
         IN  shorter \cup {Append(s, c) : s \in shorter, c \in S}

Selectors == SeqsUpTo(Alphabet, MaxSelLen)

\* Identities get_me can report: ids that collide with a roster position
\* (1, 2), a negative id, an id beyond every position, usernames in mixed
\* case, a numeric username and an absent one.
Users ==
    { [id |-> 2,     username |-> <<"A", "a">>],
      [id |-> 0 - 1, username |-> <<>>],
      [id |-> 12,    username |-> <<"1">>],
      [id |-> 1,     username |-> <<"a", "A">>] }

\* A roster: entry i was built from the i-th enumerated client.
RosterOf(us) == [i \in 1..Len(us) |-> [client |-> i, user |-> us[i]]]
Rosters == {RosterOf(us) : us \in SeqsUpTo(Users, MaxRoster)}

InitResolve ==
    /\ selector \in Selectors
    /\ accounts \in Rosters
    /\ resolved = None
    /\ pc = "ready"

Resolve ==
    /\ pc = "ready"
    /\ resolved' = _resolve_account(selector, accounts)
    /\ pc' = "done"
    /\ UNCHANGED <<selector, accounts>>
    /\ UNCHANGED notResolveVars


(***************************************************************************)
(* The roster cache: _refresh_accounts.                                    *)
(*                                                                         *)
(* The coroutine runs without interruption between two awaits, so one      *)
(* action is the code from one await to the next: BeginRefresh is the      *)
(* guard of lines 223-228 and, when the cache is not served, the code up   *)
(* to the first `await c.get_me()`; GetMeReturns and GetMeRaises are the   *)
(* code from the completion of one get_me() to the next await or to the    *)
(* return.  Several invocations (command handlers, client_ready) may be    *)
(* in progress at once, each with its own frame.                           *)
(***************************************************************************)
NumSessions == 2         \* sessions the host knows
MaxCalls == 2            \* invocations of _refresh_accounts in one behaviour
FRESH == 60              \* the freshness window of line 226

Sessions == 1..NumSessions
Callers == 1..MaxCalls

\* Readings of the clock: the start, just inside the freshness window, its
\* end, and one window later.
Times == {0, FRESH - 1, FRESH, 2 * FRESH}

\* The identities the sessions report: every session its own user, or the
\* last session logged in to the same user as the first.
UserList ==
    << [id |-> 2,     username |-> <<"A", "a">>],
       [id |-> 0 - 1, username |-> <<>>],
       [id |-> 12,    username |-> <<"1">>],
       [id |-> 1,     username |-> <<"a", "A">>],
       [id |-> 21,    username |-> <<"a", "2">>] >>
IdentityMaps ==
    { [s \in Sessions |-> UserList[s]],
      [s \in Sessions |-> UserList[IF s = NumSessions THEN 1 ELSE s]] }

RECURSIVE Range(_, _)
Range(a, b) == IF a > b THEN <<>> ELSE <<a>> \o Range(a + 1, b)

\* A frame of _refresh_accounts: `force`, `clients`, the loop's position i
\* and `accounts`; and, read by the properties only, what the invocation
\* found on entry (entry), the get_me() calls it made (queried) and the
\* sessions whose get_me() raised (raised).
NoEntry ==
    [sawEmpty |-> FALSE, sawStale |-> FALSE, prevAny |-> FALSE,
     prevRet |-> <<>>, prevRecent |-> FALSE, prevQueried |-> FALSE]
Idle ==
    [pc |-> "idle", force |-> FALSE, clients |-> <<>>, i |-> 0,
     accounts |-> <<>>, entry |-> NoEntry, queried |-> <<>>, raised |-> {}]

\* History: the invocation that returned last (n counts the returns).
NoCall ==
    [n |-> 0, force |-> FALSE, clients |-> <<>>, entry |-> NoEntry,
     queried |-> <<>>, raised |-> {}, ret |-> <<>>, end |-> 0]

Returned(f, roster) ==
    [n |-> lastCall.n + 1, force |-> f.force, clients |-> f.clients,
     entry |-> f.entry, queried |-> f.queried, raised |-> f.raised,
     ret |-> roster, end |-> now]

\* Mutation of CacheIsServed: the window includes its end, <= 60.
CacheIsServed_Inclusive(force, cache, ts, t) ==
    ~force /\ cache # <<>> /\ t - ts <= FRESH

\* Lines 223-227: the cache is served.
CacheIsServed(force, cache, ts, t) ==
    ~force /\ cache # <<>> /\ t - ts < FRESH

\* Line 230: clients = getattr(self, "allclients", None) or [self._client]
ClientsOf(all, own) == IF all # <<>> THEN all ELSE <<own>>

\* Mutation of AfterRaise: `break`, the loop ends at the first failure.
AfterRaise_Break(i, n) == n + 1

\* Line 237: `continue` goes on with the next client.
AfterRaise(i, n) == i + 1

\* Line 239: accounts.append({"client": c, "user": me})
Entry(c, me) == [client |-> c, user |-> me]

\* Mutation of Stored: the timestamp is not renewed.
Stored_NoStamp(accs, t) == [cache |-> accs, ts |-> _accounts_cache_ts]

\* Lines 241-242: the cache and its timestamp after the loop.
Stored(accs, t) == [cache |-> accs, ts |-> t]

\* Lines 223-233 in invocation p, with `own` for self._client: the cache is
\* returned, or the first get_me() is awaited.
RefreshFrame(p, force, own) ==
    /\ call[p].pc = "idle"
    /\ started' = started + 1
    /\ LET cs == ClientsOf(allclients, own)
           f == [call[p] EXCEPT
                    !.force = force, !.clients = cs,
                    !.entry = [sawEmpty |-> _accounts_cache = <<>>,
                               sawStale |-> now - _accounts_cache_ts >= FRESH,
                               prevAny |-> lastCall.n > 0,
                               prevRet |-> lastCall.ret,
                               prevRecent |-> now - lastCall.end < FRESH,
                               prevQueried |-> lastCall.queried # <<>>]]
       IN  IF CacheIsServed(force, _accounts_cache, _accounts_cache_ts, now)
           THEN /\ lastCall' = Returned(f, _accounts_cache)
                /\ UNCHANGED call
           ELSE /\ call' = [call EXCEPT ![p] =
                        [f EXCEPT !.pc = "await", !.accounts = <<>>,
                                  !.i = 1, !.queried = <<cs[1]>>]]
                /\ UNCHANGED lastCall
    /\ UNCHANGED <<now, allclients, userOf, _accounts_cache,
                   _accounts_cache_ts>>

\* _refresh_accounts is called: lines 223-233.
RefreshCalled(p, force) ==
    /\ \A q \in Callers : q < p => call[q].pc # "idle"
    /\ started < MaxCalls
    /\ RefreshFrame(p, force, _client)
    /\ UNCHANGED _client

BeginRefresh(p, force) == RefreshCalled(p, force) /\ UNCHANGED notRefreshVars

\* The loop of lines 233-239 from index j on, with `accs` collected so far:
\* the next get_me() is awaited, or lines 241-243 store and return.
Continue(p, f, j, accs) ==
    IF j <= Len(f.clients)
    THEN /\ call' = [call EXCEPT ![p] =
                [f EXCEPT !.i = j, !.accounts = accs,
                          !.queried = Append(f.queried, f.clients[j])]]
         /\ UNCHANGED <<_accounts_cache, _accounts_cache_ts, lastCall>>
    ELSE /\ _accounts_cache' = Stored(accs, now).cache
         /\ _accounts_cache_ts' = Stored(accs, now).ts
         /\ lastCall' = Returned(f, accs)
         /\ call' = [call EXCEPT ![p] = Idle]

\* The awaited get_me() returns: lines 239, then 233-235 or 241-243.
GetMeReturned(p) ==
    /\ call[p].pc = "await"
    /\ LET f == call[p]
           c == f.clients[f.i]
       IN  Continue(p, f, f.i + 1, Append(f.accounts, Entry(c, userOf[c])))
    /\ UNCHANGED <<now, _client, allclients, userOf, started>>

GetMeReturns(p) == GetMeReturned(p) /\ UNCHANGED notRefreshVars

\* The awaited get_me() raises: lines 236-237, then 233-235 or 241-243.
GetMeRaised(p) ==
    /\ call[p].pc = "await"
    /\ LET f == [call[p] EXCEPT !.raised = @ \cup {call[p].clients[call[p].i]}]
       IN  Continue(p, f, AfterRaise(f.i, Len(f.clients)), f.accounts)
    /\ UNCHANGED <<now, _client, allclients, userOf, started>>

GetMeRaises(p) == GetMeRaised(p) /\ UNCHANGED notRefreshVars

Tick(t) ==
    /\ t > now
    /\ now' = t
    /\ UNCHANGED <<_client, allclients, userOf, _accounts_cache,
                   _accounts_cache_ts, call, lastCall, started>>
    /\ UNCHANGED notRefreshVars

\* __init__ (lines 94-95), then the host has set the sessions.
InitRefresh ==
    /\ now = 0
    /\ _client \in Sessions
    /\ allclients \in {<<>>, Range(1, NumSessions)}
    /\ userOf \in IdentityMaps
    /\ _accounts_cache = <<>>
    /\ _accounts_cache_ts = 0
    /\ call = [p \in Callers |-> Idle]
    /\ started = 0
    /\ lastCall = NoCall

(***************************************************************************)
(* The chat-membership guarantor: _ensure_in_chat, with                    *)
(* _export_invite_link and _join_with_link.                                *)
(*                                                                         *)
(* The coroutine awaits one Telegram request at a time; epc names the      *)
(* request it is waiting for:                                              *)
(*   "perm"         client.get_permissions(chat, "me")          line 369   *)
(*   "join_handle"  client(JoinChannelRequest(username))        line 377   *)
(*   "main_entity"  self._client.get_input_entity(chat)         line 344   *)
(*   "export"       self._client(ExportChatInviteRequest)       line 345   *)
(*   "join_link"    client(ImportChatInviteRequest) or          line 359   *)
(*                  client(JoinChannelRequest(slug))            line 362   *)
(*   "perm_link"    client.get_permissions(chat, "me")          line 388   *)
(*   "main_perm"    self._client.get_permissions(chat, "me")    line 396   *)
(*   "invite"       self._client(InviteToChannelRequest)        line 398   *)
(*   "perm_invite"  client.get_permissions(chat, "me")          line 404   *)
(* Every request either returns or raises, as Telegram decides; the        *)
(* exported invite may come without a link (no attribute, None or "",      *)
(* lines 348 and 385); the target's own permission query can return only   *)
(* while the target is in the chat.  One action is the code from the completion of one request    *)
(* to the next await or to the return.  self._client is set, as it is      *)
(* whenever a command runs (client_ready, line 215).                       *)
(***************************************************************************)
MaxEnsureRuns == 2       \* invocations of _ensure_in_chat in one behaviour

RET_TRUE == "return True"
RET_FALSE == "return False"
RAISES == "raises"
Finished == {RET_TRUE, RET_FALSE, RAISES}

Requests ==
    {"perm", "join_handle", "main_entity", "export", "join_link",
     "perm_link", "main_perm", "invite", "perm_invite"}

\* The requests the target account issues about its own membership.
OwnPermissionQueries == {"perm", "perm_link", "perm_invite"}
\* The requests that put the target account into the chat.
Joins == {"join_handle", "join_link", "invite"}

\* Lines 375-376: the public username is tried when the chat has one.
JoinByHandle(hasUsername) ==
    IF hasUsername THEN "join_handle" ELSE "main_entity"

\* Line 394: the main session invites the target unless it is the target.
DirectInvite(isMain) == IF isMain THEN RET_FALSE ELSE "main_perm"

\* Where the code goes when the awaited request returns; `link` says
\* whether the exported invite has a link (line 385).
AfterReturn(req, link, isMain) ==
    CASE req = "perm"        -> RET_TRUE
      [] req = "join_handle" -> RET_TRUE
      [] req = "main_entity" -> "export"
      [] req = "export"      -> IF link THEN "join_link"
                                ELSE DirectInvite(isMain)
      [] req = "join_link"   -> "perm_link"
      [] req = "perm_link"   -> RET_TRUE
      [] req = "main_perm"   -> "invite"
      [] req = "invite"      -> "perm_invite"
      [] req = "perm_invite" -> RET_TRUE

Caught_InviteUnguarded(req, hasUsername, isMain) ==
    CASE req = "perm"        -> JoinByHandle(hasUsername)
      [] req = "join_handle" -> "main_entity"
      [] req = "main_entity" -> DirectInvite(isMain)
      [] req = "export"      -> DirectInvite(isMain)
      [] req = "join_link"   -> DirectInvite(isMain)
      [] req = "perm_link"   -> DirectInvite(isMain)
      [] req = "main_perm"   -> RET_FALSE
      [] req = "invite"      -> RAISES
      [] req = "perm_invite" -> RET_FALSE

\* Where the code goes when the awaited request raises: each request sits
\* in a try whose handler falls through to the next step (lines 371, 379,
\* 349 and 364, 390, 405-408).
Caught(req, hasUsername, isMain) ==
    CASE req = "perm"        -> JoinByHandle(hasUsername)
      [] req = "join_handle" -> "main_entity"
      [] req = "main_entity" -> DirectInvite(isMain)
      [] req = "export"      -> DirectInvite(isMain)
      [] req = "join_link"   -> DirectInvite(isMain)
      [] req = "perm_link"   -> DirectInvite(isMain)
      [] req = "main_perm"   -> RET_FALSE
      [] req = "invite"      -> RET_FALSE
      [] req = "perm_invite" -> RET_FALSE

\* The frame after a request completed and control went to `next`.
EnsureGoes(req, ok, link, next) ==
    /\ elog' = Append(elog, [req |-> req, ok |-> ok, link |-> link])
    /\ epc' = IF next \in Finished THEN "idle" ELSE next
    /\ eresult' = IF next \in Finished THEN next ELSE eresult

\* A command calls _ensure_in_chat: the code up to the first await.
EnsureBegin ==
    /\ epc = "idle"
    /\ eruns < MaxEnsureRuns
    /\ eruns' = eruns + 1
    /\ eprev' = eresult
    /\ epc' = "perm"
    /\ elog' = <<>>
    /\ eresult' = "pending"
    /\ UNCHANGED <<chatUsername, targetIsMain, member>>
    /\ UNCHANGED notEnsureVars

\* The awaited request returns; only the export's result can hold a link.
RequestReturns(req, link) ==
    /\ epc = req
    /\ link => req = "export"
    /\ req \in OwnPermissionQueries => member
    /\ EnsureGoes(req, TRUE, link, AfterReturn(req, link, targetIsMain))
    /\ member' = (member \/ req \in Joins)
    /\ UNCHANGED <<chatUsername, targetIsMain, eruns, eprev>>
    /\ UNCHANGED notEnsureVars

RequestRaises(req) ==
    /\ epc = req
    /\ EnsureGoes(req, FALSE, FALSE,
                  Caught(req, chatUsername, targetIsMain))
    /\ UNCHANGED <<chatUsername, targetIsMain, member, eruns, eprev>>
    /\ UNCHANGED notEnsureVars

InitEnsure ==
    /\ chatUsername \in BOOLEAN
    /\ targetIsMain \in BOOLEAN
    /\ member \in BOOLEAN
    /\ epc = "idle"
    /\ elog = <<>>
    /\ eresult = "none"
    /\ eruns = 0
    /\ eprev = "none"

(***************************************************************************)
(* The command handlers: listacccmd, saycmd, reportcmd, joincmd and        *)
(* spamacccmd.                                                             *)
(*                                                                         *)
(* One behaviour is one command.  The tasks of the host share one event   *)
(* loop, so an action is what the handler does from the completion of one  *)
(* await to its next await: get_me() of _refresh_accounts, every request   *)
(* of _ensure_in_chat, get_reply_message(), get_chat(), send_message,      *)
(* get_input_entity, ReportRequest, asyncio.sleep, utils.answer and        *)
(* message.delete() each end a step.  The handler runs _refresh_accounts   *)
(* and _ensure_in_chat themselves (the frames above), so it writes         *)
(* _accounts_cache and _accounts_cache_ts; `snapshot` is the roster the    *)
(* call returned to it.  `trace` records every request the accounts made   *)
(* for the handler, when its outcome is known, and every pause, when it    *)
(* begins; `replies` the utils.answer calls and `deleted` the              *)
(* message.delete(), when they are made.  get_reply_message, get_chat,     *)
(* utils.answer, message.delete and asyncio.sleep are the host's and       *)
(* return.                                                                 *)
(***************************************************************************)
MaxCount == 5            \* largest count or repeat token drawn

\* asyncio.sleep arguments, in milliseconds.
SAY_PAUSE == 350
REPORT_PAUSE == 250
JOIN_PAUSE == 200
SPAM_PAUSE == 150
SPAM_ROUND_PAUSE == 100


\* Python list slices a[1:] and a[:-1], the item a[-1], and max(1, v).
DropFirst(a) == SubSeq(a, 2, Len(a))
DropLast(a) == SubSeq(a, 1, Len(a) - 1)
Last(a) == a[Len(a)]
AtLeastOne(v) == IF v < 1 THEN 1 ELSE v

SilentTokens == {<<"-", "s">>, <<"s">>}

\* _extract_silent: the arguments without a trailing silent token, and
\* whether there was one.
_extract_silent(a) ==
    IF a # <<>> /\ rstrip(lower(Last(a)), ".") \in SilentTokens
    THEN [args |-> DropLast(a), silent |-> TRUE]
    ELSE [args |-> a, silent |-> FALSE]

\* " ".join(parts).strip() is the empty string.
NoText(parts) ==
    \A k \in 1..Len(parts) : \A n \in 1..Len(parts[k]) : parts[k][n] = " "

\* The keys of self._reason_map (lines 96-103).
ReasonKeys ==
    { <<"s", "p", "a", "m">>,
      <<"v", "i", "o", "l", "e", "n", "c", "e">>,
      <<"p", "o", "r", "n", "o", "g", "r", "a", "p", "h", "y">>,
      <<"c", "h", "i", "l", "d", "a", "b", "u", "s", "e">>,
      <<"c", "o", "p", "y", "r", "i", "g", "h", "t">>,
      <<"o", "t", "h", "e", "r">> }

\* _parse_reasons: how many reasons each account reports.
NumReasons(a) == IF a # <<>> /\ lower(a[1]) \in ReasonKeys THEN 1 ELSE 2

\* Roster indices (Python's, from 0) of all accounts.
AllOf(accs) == [k \in 1..Len(accs) |-> k - 1]

\* A utils.answer call: the string it formats and what it puts into it.
Reply(text, sel, num, of) ==
    [text |-> text, selector |-> sel, num |-> num, of |-> of]

\* A request through an account (acc is its roster index) or a pause.
Request(ev, acc, ok) == [ev |-> ev, acc |-> acc, ok |-> ok, ms |-> 0]
Pause(ms) == [ev |-> "sleep", acc |-> 0 - 1, ok |-> TRUE, ms |-> ms]

\* What a handler has decided when it reaches its loop or returns before it.
Early(sil, reply) ==
    [next |-> "done", silent |-> sil, targets |-> <<>>, count |-> 0,
     replies |-> <<reply>>, deleted |-> FALSE]
Raised(sil) ==
    [next |-> "raised", silent |-> sil, targets |-> <<>>, count |-> 0,
     replies |-> <<>>, deleted |-> FALSE]
Loop(sil, tgts, n) ==
    [next |-> "loop", silent |-> sil, targets |-> tgts, count |-> n,
     replies |-> <<>>, deleted |-> FALSE]

\* The reply of lines 313-317 and 511-515: the selector as it was typed.
NotFound(sel) == Reply("say_not_found_selector", sel, 0, 0)

\* listacccmd, whole (lines 254-287): with an empty roster it answers
\* no_accounts, after deleting the message when silent.
ListPlan(a0, accs) ==
    LET ex == _extract_silent(a0) IN
    IF accs = <<>>
    THEN [next |-> "done", silent |-> ex.silent, targets |-> <<>>,
          count |-> 0, replies |-> <<Reply("no_accounts", <<>>, 0, 0)>>,
          deleted |-> ex.silent]
    ELSE IF ex.silent
    THEN [next |-> "done", silent |-> TRUE, targets |-> <<>>, count |-> 0,
          replies |-> <<>>, deleted |-> TRUE]
    ELSE Early(FALSE, Reply("list_header", <<>>, Len(accs), 0))

\* saycmd up to its loop (lines 289-322).
SayPlan(a0, accs) ==
    LET ex == _extract_silent(a0)
        a == ex.args
    IN  IF Len(a) < 2 THEN Early(ex.silent, Reply("say_usage", <<>>, 0, 0))
        ELSE
        LET acc_selector == a[1]
            rest == DropFirst(a)
            counted == Len(rest) > 1 /\ isdigit(Last(rest))
            parsed == int(Last(rest))
            text_parts == IF counted THEN DropLast(rest) ELSE rest
            idx == _resolve_account(acc_selector, accs)
        IN  IF counted /\ ~parsed.ok THEN Raised(ex.silent)
            ELSE IF NoText(text_parts)
            THEN Early(ex.silent, Reply("say_missing_text", <<>>, 0, 0))
            ELSE IF idx = ValueError THEN Raised(ex.silent)
            ELSE IF idx = None THEN Early(ex.silent, NotFound(acc_selector))
            ELSE Loop(ex.silent, <<idx.index>>,
                      IF counted THEN AtLeastOne(parsed.value) ELSE 1)

\* reportcmd up to its loop (lines 431-444).
ReportPlan(replying, a0, accs) ==
    IF ~replying THEN Early(FALSE, Reply("report_need_reply", <<>>, 0, 0))
    ELSE Loop(_extract_silent(a0).silent, AllOf(accs), 0)

\* joincmd up to its loop (lines 496-518).
JoinPlan(a0, accs) ==
    LET ex == _extract_silent(a0)
        a == ex.args
    IN  IF accs = <<>>
        THEN Early(ex.silent, Reply("no_accounts", <<>>, 0, 0))
        ELSE IF a = <<>> THEN Loop(ex.silent, AllOf(accs), 0)
        ELSE
        LET idx == _resolve_account(a[1], accs) IN
            IF idx = ValueError THEN Raised(ex.silent)
            ELSE IF idx = None THEN Early(ex.silent, NotFound(a[1]))
            ELSE Loop(ex.silent, <<idx.index>>, 0)

\* Lines 567-571: the first of two or more tokens before the count is tried
\* as an account selector.
SpamAccount(before, accs) ==
    IF Len(before) >= 2 THEN _resolve_account(before[1], accs) ELSE None

\* spamacccmd up to its loop (lines 545-585).
SpamPlan(a0, accs) ==
    LET ex == _extract_silent(a0)
        a == ex.args
    IN  IF Len(a) < 2 THEN Early(ex.silent, Reply("spam_usage", <<>>, 0, 0))
        ELSE IF accs = <<>>
        THEN Early(ex.silent, Reply("no_accounts", <<>>, 0, 0))
        ELSE IF ~isdigit(Last(a))
        THEN Early(ex.silent, Reply("spam_bad_count", <<>>, 0, 0))
        ELSE IF ~int(Last(a)).ok THEN Raised(ex.silent)
        ELSE
        LET n == AtLeastOne(int(Last(a)).value)
            before == DropLast(a)
            idx == SpamAccount(before, accs)
            text_parts == IF idx.kind = "index" THEN DropFirst(before)
                          ELSE before
        IN  IF idx = ValueError THEN Raised(ex.silent)
            ELSE IF text_parts = <<>>
            THEN Early(ex.silent, Reply("spam_usage", <<>>, 0, 0))
            ELSE Loop(ex.silent,
                      IF idx.kind = "index" THEN <<idx.index>> ELSE AllOf(accs),
                      n)

\* label_map.get(i, str(i + 1)) of lines 506-529.
JoinLabel(a, k) == IF a # <<>> THEN a[1] ELSE str(k + 1)

\* The plan of the handler of `cmd`.
PlanOf(cmd, a0, replying, accs) ==
    CASE cmd = "listacc" -> ListPlan(a0, accs)
      [] cmd = "say"     -> SayPlan(a0, accs)
      [] cmd = "report"  -> ReportPlan(replying, a0, accs)
      [] cmd = "join"    -> JoinPlan(a0, accs)
      [] cmd = "spamacc" -> SpamPlan(a0, accs)

\* Whether the handler gets as far as its call of _refresh_accounts: saycmd
\* returns or raises before it on lines 293-308, spamacccmd on lines 549-552.
Reaches(cmd, a0) ==
    LET a == _extract_silent(a0).args
        rest == DropFirst(a)
        counted == Len(rest) > 1 /\ isdigit(Last(rest))
    IN  CASE cmd = "say" ->
                 /\ Len(a) >= 2
                 /\ counted => int(Last(rest)).ok
                 /\ ~NoText(IF counted THEN DropLast(rest) ELSE rest)
          [] cmd = "spamacc" -> Len(a) >= 2
          [] OTHER -> TRUE

\* listacccmd passes force=True (line 258), the others nothing.
Force(cmd) == cmd = "listacc"

\* The invocation of _refresh_accounts the handler awaits: the first of the
\* behaviour.
Handler == 1

\* The locals the handler's loop reads.
Locals ==
    [silent |-> silent, targets |-> targets, count |-> count,
     accounts |-> snapshot]
NoLocals(sil) ==
    [silent |-> sil, targets |-> <<>>, count |-> 0, accounts |-> <<>>]

\* Where a step of the handler ends: the await it is at next (cpc), its
\* locals (h), the iterations completed (iter), the accounts counted
\* (success), what it asks utils.answer to say (reply), the pause it asks
\* asyncio.sleep for (pause), whether it calls message.delete() (deleted)
\* or _ensure_in_chat (calls), and the reason it reports (reason).
To(pcn, h, n, s) ==
    [cpc |-> pcn, h |-> h, iter |-> n, success |-> s, reply |-> <<>>,
     pause |-> <<>>, deleted |-> FALSE, calls |-> "none", reason |-> 0]
Answering(reply, pcn, h, n, s) == [To(pcn, h, n, s) EXCEPT !.reply = <<reply>>]
Deleting(h, n, s) == [To("delete", h, n, s) EXCEPT !.deleted = TRUE]
Sleeping(ms, pcn, h, n, s) == [To(pcn, h, n, s) EXCEPT !.pause = <<Pause(ms)>>]
Ensuring(h, n, s) == [To("ensure", h, n, s) EXCEPT !.calls = "ensure"]
Reporting(r, h, n, s) == [To("report", h, n, s) EXCEPT !.reason = r]

\* The handler's last answer (lines 332-337, 489-494, 540-543, 608-616).
Summary(h, s) ==
    CASE command = "say" ->
             Reply("say_sent", <<>>, h.targets[1] + 1, h.count)
      [] command = "report" ->
             Reply("report_done", <<>>, s, Len(h.accounts))
      [] command = "join" -> Reply("join_ok", <<>>, s, Len(h.targets))
      [] command = "spamacc" ->
             LET idx == SpamAccount(DropLast(_extract_silent(args).args),
                                    h.accounts)
             IN  Reply("spam_sent", <<>>,
                       IF idx.kind = "index" THEN idx.index + 1 ELSE 0,
                       h.count)

\* After the loop: the message is deleted when silent, answered otherwise
\* (lines 332-338, 484-494, 535-543, 603-616).
Ending(h, n, s) ==
    IF h.silent THEN Deleting(h, n, s)
    ELSE Answering(Summary(h, s), "answer", h, n, s)

\* The iterations of the handler's loop: range(repeat), range(count), the
\* accounts.
Iterations(h) ==
    IF command \in {"say", "spamacc"} THEN h.count ELSE Len(h.targets)

\* The head of the loop after n iterations: the first await of the next
\* iteration (send_message in saycmd and spamacccmd, _ensure_in_chat in
\* reportcmd and joincmd), or the code after the loop.
NextIteration(h, n, s) ==
    IF n >= Iterations(h) THEN Ending(h, n, s)
    ELSE IF command \in {"say", "spamacc"} THEN To("send", h, n, s)
    ELSE Ensuring(h, n, s)

\* The handler acts on its plan.  A silent listacccmd deletes the message
\* (lines 260-264 and 278-281); saycmd and spamacccmd fetch the replied
\* message before their loops (lines 320 and 580).
Decided(plan, accs) ==
    LET h == [silent |-> plan.silent, targets |-> plan.targets,
              count |-> plan.count, accounts |-> accs]
    IN  CASE plan.next = "raised" -> To("raised", h, 0, 0)
          [] plan.next = "done" ->
                 IF plan.deleted THEN Deleting(h, 0, 0)
                 ELSE Answering(plan.replies[1], "answer", h, 0, 0)
          [] plan.next = "loop" ->
                 IF command \in {"say", "spamacc"}
                 THEN To("reply_msg", h, 0, 0)
                 ELSE NextIteration(h, 0, 0)

\* _refresh_accounts has returned `accs` to the handler.  joincmd with a
\* roster awaits message.get_chat() before it looks its selector up (line
\* 504).
RosterKnown(accs) ==
    IF command = "join" /\ accs # <<>>
    THEN To("get_chat",
            [NoLocals(_extract_silent(args).silent) EXCEPT !.accounts = accs],
            0, 0)
    ELSE Decided(PlanOf(command, args, isReply, accs), accs)

\* The variables no command handler writes.
notHandlerVars ==
    <<resolveVars, updateVars, rouletteVars, rcmdVars, lifeVars,
      genshinVars>>

\* The frame of _ensure_in_chat when none of its requests completes in
\* this step, and after request `req` has completed and control went to
\* `next`.  When the call returns its frame is gone: the handler keeps the
\* value returned, not the requests that led to it.
EnsureAsIs ==
    [epc |-> epc, elog |-> elog, eresult |-> eresult, member |-> member]
EnsureAfter(req, ok, link, next) ==
    [epc |-> IF next \in Finished THEN "idle" ELSE next,
     elog |-> IF next \in Finished THEN <<>>
              ELSE Append(elog, [req |-> req, ok |-> ok, link |-> link]),
     eresult |-> IF next \in Finished THEN next ELSE eresult,
     member |-> (member \/ (ok /\ req \in Joins))]

\* One step of a handler: `events` are the requests that have completed,
\* `to` is where the handler awaits next, `e` the frame of _ensure_in_chat
\* the step leaves.  When the step calls _ensure_in_chat (lines 449 and
\* 521) for the account of the iteration, that account is or is not in the
\* chat, and the call runs to its first await.
Proceed(events, to, e) ==
    /\ cpc' = to.cpc
    /\ silent' = to.h.silent
    /\ targets' = to.h.targets
    /\ count' = to.h.count
    /\ snapshot' = to.h.accounts
    /\ iter' = to.iter
    /\ success' = to.success
    /\ reason' = to.reason
    /\ replies' = replies \o to.reply
    /\ deleted' = (deleted \/ to.deleted)
    /\ trace' = trace \o events \o to.pause
    /\ IF to.calls = "ensure"
       THEN /\ epc' = "perm"
            /\ elog' = <<>>
            /\ eresult' = "pending"
            /\ eprev' = e.eresult
            /\ eruns' = eruns + 1
            /\ member' \in BOOLEAN
            /\ targetIsMain' =
                  (to.h.accounts[to.h.targets[to.iter + 1] + 1].client
                      = _client)
       ELSE /\ epc' = e.epc
            /\ elog' = e.elog
            /\ eresult' = e.eresult
            /\ member' = e.member
            /\ UNCHANGED <<eprev, eruns, targetIsMain>>
    /\ UNCHANGED chatUsername
    /\ UNCHANGED <<command, args, isReply>>
    /\ UNCHANGED notHandlerVars

\* The handler calls _refresh_accounts (lines 258, 310, 442, 500, 555): the
\* cache is served at once, or the first get_me() is awaited.
CallsRefresh(h) ==
    /\ RefreshCalled(Handler, Force(command))
    /\ Proceed(<<>>,
               IF CacheIsServed(Force(command), _accounts_cache,
                                _accounts_cache_ts, now)
               THEN RosterKnown(_accounts_cache)
               ELSE To("get_me", h, 0, 0),
               EnsureAsIs)

\* A handler other than reportcmd is entered: the code up to its first
\* await.
Enter(cmd) ==
    /\ command = cmd
    /\ cpc = "start"
    /\ IF Reaches(cmd, args)
       THEN CallsRefresh(NoLocals(_extract_silent(args).silent))
       ELSE /\ Proceed(<<>>,
                       Decided(PlanOf(cmd, args, isReply, <<>>), <<>>),
                       EnsureAsIs)
            /\ UNCHANGED refreshVars

ListAcc == Enter("listacc")
SayBegin == Enter("say")
JoinBegin == Enter("join")
SpamBegin == Enter("spamacc")

\* reportcmd is entered: it awaits message.get_reply_message() (line 433).
ReportBegin ==
    /\ command = "report"
    /\ cpc = "start"
    /\ Proceed(<<>>, To("reply_msg", NoLocals(FALSE), 0, 0), EnsureAsIs)
    /\ UNCHANGED refreshVars

\* A get_me() awaited by the handler's _refresh_accounts returns (ok) or
\* raises: the next one is awaited, or the roster is stored and returned.
RosterGetMe(ok) ==
    /\ cpc = "get_me"
    /\ IF ok THEN GetMeReturned(Handler) ELSE GetMeRaised(Handler)
    /\ Proceed(<<>>,
               IF call'[Handler].pc = "idle" THEN RosterKnown(lastCall'.ret)
               ELSE To("get_me", Locals, 0, 0),
               EnsureAsIs)

\* message.get_reply_message() has returned (lines 320, 433, 580).
\* reportcmd answers when there is no replied message and awaits
\* message.get_chat() otherwise (lines 434-441); saycmd and spamacccmd
\* begin their loops.
ReplyFetched ==
    /\ cpc = "reply_msg"
    /\ Proceed(<<>>,
               IF command # "report" THEN NextIteration(Locals, 0, 0)
               ELSE IF ~isReply
               THEN Decided(ReportPlan(FALSE, args, <<>>), <<>>)
               ELSE To("get_chat", NoLocals(_extract_silent(args).silent),
                       0, 0),
               EnsureAsIs)
    /\ UNCHANGED refreshVars

\* message.get_chat() has returned: reportcmd calls _refresh_accounts (line
\* 442), joincmd looks its selector up and begins its loop (lines 506-519).
ChatFetched ==
    /\ cpc = "get_chat"
    /\ IF command = "report" THEN CallsRefresh(Locals)
       ELSE /\ Proceed(<<>>, Decided(JoinPlan(args, snapshot), snapshot),
                       EnsureAsIs)
            /\ UNCHANGED refreshVars

\* saycmd, lines 323-330: send_message is not guarded, so a failing send
\* ends the handler with the exception; after a send, the pause when
\* repeat > 3.
SaySend(ok) ==
    /\ command = "say"
    /\ cpc = "send"
    /\ Proceed(<<Request("send", targets[1], ok)>>,
               IF ~ok THEN To("raised", Locals, iter, success)
               ELSE IF count > 3
               THEN Sleeping(SAY_PAUSE, "sleep", Locals, iter, success)
               ELSE NextIteration(Locals, iter + 1, success),
               EnsureAsIs)
    /\ UNCHANGED refreshVars

SpamTurn_Sticky(k, n) == IF k < n THEN k ELSE n - 1

\* Line 589: the account of send number k (from 0) among n targets.
SpamTurn(k, n) == k % n

SpamAfterSend_Abort(ok) == IF ok THEN "loop" ELSE "raised"

\* Lines 590-597: a failing send is caught and the loop goes on.
SpamAfterSend(ok) == "loop"

\* spamacccmd, lines 600-601: the pause after the send that completes a
\* round when count > 3, then the next iteration.
SpamRound ==
    IF count > 3 /\ iter % Len(targets) = Len(targets) - 1
    THEN Sleeping(SPAM_ROUND_PAUSE, "round_sleep", Locals, iter, success)
    ELSE NextIteration(Locals, iter + 1, success)

\* spamacccmd, lines 588-599: the send has returned or raised; the pacing
\* pause when more than one account takes part.
SpamSend(ok) ==
    /\ command = "spamacc"
    /\ cpc = "send"
    /\ Proceed(<<Request("send",
                         targets[SpamTurn(iter, Len(targets)) + 1], ok)>>,
               IF SpamAfterSend(ok) = "raised"
               THEN To("raised", Locals, iter, success)
               ELSE IF Len(targets) > 1
               THEN Sleeping(SPAM_PAUSE, "sleep", Locals, iter, success)
               ELSE SpamRound,
               EnsureAsIs)
    /\ UNCHANGED refreshVars

\* joincmd, lines 532-533: the pause when more than two accounts are
\* joined, then the next iteration.
JoinPacing(s) ==
    IF Len(targets) > 2 THEN Sleeping(JOIN_PAUSE, "sleep", Locals, iter, s)
    ELSE NextIteration(Locals, iter + 1, s)

\* _ensure_in_chat has returned in_chat to the handler.  reportcmd (lines
\* 450-458) answers for an account that is not in the chat and goes on to
\* get_input_entity otherwise; joincmd (lines 522-533) counts the account,
\* or answers unless silent.
AfterEnsure(in_chat) ==
    IF command = "report"
    THEN IF in_chat THEN To("entity", Locals, iter, success)
         ELSE Answering(Reply("report_not_in_chat", <<>>, iter + 1, 0),
                        "tell", Locals, iter, success)
    ELSE IF in_chat THEN JoinPacing(success + 1)
    ELSE IF silent THEN JoinPacing(success)
    ELSE Answering(Reply("join_fail",
                         JoinLabel(_extract_silent(args).args, iter), 0, 0),
                   "tell", Locals, iter, success)

\* A request of the _ensure_in_chat that reportcmd or joincmd awaits has
\* returned (ok, the export with or without a link) or raised: the call
\* awaits its next request, or returns to the handler.
EnsureRequest(req, ok, link) ==
    /\ cpc = "ensure"
    /\ epc = req
    /\ link => (ok /\ req = "export")
    /\ (ok /\ req \in OwnPermissionQueries) => member
    /\ LET next == IF ok THEN AfterReturn(req, link, targetIsMain)
                   ELSE Caught(req, chatUsername, targetIsMain)
           acc == targets[iter + 1]
       IN  Proceed(IF next \in {RET_TRUE, RET_FALSE}
                   THEN <<Request("ensure", acc, next = RET_TRUE)>>
                   ELSE <<>>,
                   IF next = RAISES THEN To("raised", Locals, iter, success)
                   ELSE IF next \in Finished THEN AfterEnsure(next = RET_TRUE)
                   ELSE To("ensure", Locals, iter, success),
                   EnsureAfter(req, ok, link, next))
    /\ UNCHANGED refreshVars

\* reportcmd, lines 457-464: get_input_entity has returned or raised.
ReportEntity(ok) ==
    /\ cpc = "entity"
    /\ Proceed(<<Request("entity", targets[iter + 1], ok)>>,
               IF ok THEN Reporting(1, Locals, iter, success)
               ELSE Answering(Reply("report_not_in_chat", <<>>, iter + 1, 0),
                              "tell", Locals, iter, success),
               EnsureAsIs)
    /\ UNCHANGED refreshVars

\* reportcmd, lines 466-481: the ReportRequest of one reason has returned
\* or raised; after the last reason the account is counted, and the
\* handler pauses when the roster has more than two accounts.
ReportSent(ok) ==
    /\ cpc = "report"
    /\ Proceed(<<Request("report", targets[iter + 1], ok)>>,
               IF reason < NumReasons(_extract_silent(args).args)
               THEN Reporting(reason + 1, Locals, iter, success)
               ELSE IF Len(snapshot) > 2
               THEN Sleeping(REPORT_PAUSE, "sleep", Locals, iter,
                             success + 1)
               ELSE NextIteration(Locals, iter + 1, success + 1),
               EnsureAsIs)
    /\ UNCHANGED refreshVars

\* The utils.answer inside a loop has returned: reportcmd goes on with the
\* next account (lines 451-455, 460-464), joincmd with its pause (line 532).
Told ==
    /\ cpc = "tell"
    /\ Proceed(<<>>,
               IF command = "report"
               THEN NextIteration(Locals, iter + 1, success)
               ELSE JoinPacing(success),
               EnsureAsIs)
    /\ UNCHANGED refreshVars

\* asyncio.sleep has returned (lines 330, 481, 533, 599).
Slept ==
    /\ cpc = "sleep"
    /\ Proceed(<<>>,
               IF command = "spamacc" THEN SpamRound
               ELSE NextIteration(Locals, iter + 1, success),
               EnsureAsIs)
    /\ UNCHANGED refreshVars

\* asyncio.sleep(0.1) of spamacccmd has returned (line 601).
RoundSlept ==
    /\ cpc = "round_sleep"
    /\ Proceed(<<>>, NextIteration(Locals, iter + 1, success), EnsureAsIs)
    /\ UNCHANGED refreshVars

\* The handler's last utils.answer has returned: the handler returns.
Answered ==
    /\ cpc = "answer"
    /\ Proceed(<<>>, To("done", Locals, iter, success), EnsureAsIs)
    /\ UNCHANGED refreshVars

\* message.delete() is over: the handler returns, listacccmd with an empty
\* roster after it has answered (line 264).
Deleted ==
    /\ cpc = "delete"
    /\ LET plan == ListPlan(args, snapshot)
       IN  Proceed(<<>>,
                   IF command = "listacc" /\ plan.replies # <<>>
                   THEN Answering(plan.replies[1], "answer", Locals, iter,
                                  success)
                   ELSE To("done", Locals, iter, success),
                   EnsureAsIs)
    /\ UNCHANGED refreshVars

\* The arguments drawn: an account selector (a roster position, a user id,
\* one that matches nothing, one that int() rejects), words of text (one
\* of them blank, as a quoted space is), a count (0, SUP2 and the largest
\* included) and a silent token, each present or absent.
Commands == {"listacc", "say", "report", "join", "spamacc"}
SelectorArgs ==
    {<<>>, <<<<"2">>>>, <<<<"-", "1">>>>, <<<<"9">>>>, <<<<"-", "-", "1">>>>}
TextArgs == {<<>>, <<<<"h", "i">>>>, <<<<"h", "i">>, <<"y", "o">>>>, <<<<" ">>>>}
CountArgs == {<<>>, <<<<"0">>>>, <<<<"2">>>>, <<str(MaxCount)>>, <<<<SUP2>>>>}
SilentArgs == {<<>>, <<<<"-", "s">>>>, <<<<"s">>>>, <<<<"S", ".">>>>}
ReasonArgs == {<<>>, <<<<"S", "p", "a", "m">>>>, <<<<"h", "i">>>>}

ArgsOf(cmd) ==
    CASE cmd = "listacc" -> SilentArgs
      [] cmd = "report" -> {r \o q : r \in ReasonArgs, q \in SilentArgs}
      [] cmd = "join" -> {a \o q : a \in SelectorArgs, q \in SilentArgs}
      [] OTHER -> {a \o t \o n \o q : a \in SelectorArgs, t \in TextArgs,
                                      n \in CountArgs, q \in SilentArgs}

\* The sessions the host knows when the command arrives: none (the
\* manager's own client stands in, line 230) to MaxRoster.
SessionLists == {Range(1, n) : n \in 0..MaxRoster}

\* The roster a _refresh_accounts before the command has left in the
\* cache, if any.
CachedBefore(all) ==
    {<<>>, [i \in 1..Len(all) |-> Entry(all[i], UserList[all[i]])]}

\* The command arrives: the handler has not run; no _refresh_accounts and
\* no _ensure_in_chat is running.  Only reportcmd and joincmd read the
\* replied message or the chat's username.
InitCommand ==
    /\ command \in Commands
    /\ args \in ArgsOf(command)
    /\ isReply \in (IF command = "report" THEN BOOLEAN ELSE {FALSE})
    /\ now = 0
    /\ _client = 1
    /\ allclients \in SessionLists
    /\ userOf = [s \in 1..MaxRoster |-> UserList[s]]
    /\ _accounts_cache \in CachedBefore(ClientsOf(allclients, 1))
    /\ _accounts_cache_ts = 0
    /\ call = [p \in Callers |-> Idle]
    /\ started = 0
    /\ lastCall = NoCall
    /\ chatUsername \in (IF command \in {"report", "join"} THEN BOOLEAN
                         ELSE {FALSE})
    /\ targetIsMain = FALSE
    /\ member = FALSE
    /\ epc = "idle"
    /\ elog = <<>>
    /\ eresult = "none"
    /\ eruns = 0
    /\ eprev = "none"
    /\ snapshot = <<>>
    /\ reason = 0
    /\ cpc = "start"
    /\ silent = FALSE
    /\ targets = <<>>
    /\ count = 0
    /\ iter = 0
    /\ success = 0
    /\ trace = <<>>
    /\ replies = <<>>
    /\ deleted = FALSE

(***************************************************************************)
(* The self-update: _check_self_update, run by the task client_ready       *)
(* creates for it at start-up, by _auto_update_loop every _update_interval *)
(* seconds, and by accupdcmd whenever the user asks.                       *)
(*                                                                         *)
(* The tasks share one event loop: an action is what one task does from    *)
(* one await to the next.  _check_self_update awaits the lock (when it is  *)
(* taken), _fetch_remote and reload_module; reading, comparing and writing *)
(* the file happen without an await between them.  asyncio.Lock hands a    *)
(* released lock to its first waiter: a newcomer takes the lock only when  *)
(* it is free and nobody waits.                                            *)
(***************************************************************************)
MaxManual == 2           \* accupd commands in one behaviour

Startup == [task |-> "startup", n |-> 0]
Timer == [task |-> "timer", n |-> 0]
Manual(k) == [task |-> "accupd", n |-> k]
Nobody == [task |-> "none", n |-> 0]
Updaters == {Startup, Timer} \cup {Manual(k) : k \in 1..MaxManual}

\* How the code between `await self._fetch_remote()` and the next await or
\* return can go (lines 166-199).
FetchOutcomes ==
    {"fetch raised", "read raised", "same", "write raised", "written"}

CanTake_Unlocked(holder, queue) == TRUE

\* asyncio.Lock.acquire returns at once when the lock is free and nobody
\* waits for it.
CanTake(holder, queue) == holder = Nobody /\ queue = <<>>

\* Where a task goes when _check_self_update returns to it: the start-up
\* task ends, the loop sleeps (line 205), accupdcmd deletes the message
\* (line 212).
Resumes(p) ==
    CASE p = Startup -> "done"
      [] p = Timer -> "sleep"
      [] OTHER -> "delete"

AfterFailure_Propagated(p) == "dead"

\* Where a task goes when a step of the check failed: every failure is
\* caught inside _check_self_update (lines 168, 174, 190, 200), which
\* returns.
AfterFailure(p) == Resumes(p)

\* Lines 168-169, 174-178, 190-194: a failure is dropped without a word.
UpdateFailureReport == "nowhere"

\* The history of the timer's checks.
TimerEnds(p, how) ==
    /\ ulast' = IF p = Timer THEN how ELSE ulast
    /\ ureport' = IF how = "failed" THEN UpdateFailureReport ELSE ureport
    /\ UNCHANGED uagain

\* `async with self._update_lock` (line 164), then line 167 up to the await.
EnterCheck(p) ==
    /\ IF CanTake(_update_lock, _waiters)
       THEN /\ _update_lock' = p
            /\ upc' = [upc EXCEPT ![p] = "fetch"]
            /\ UNCHANGED _waiters
       ELSE /\ _waiters' = Append(_waiters, p)
            /\ upc' = [upc EXCEPT ![p] = "waiting"]
            /\ UNCHANGED _update_lock
    /\ uagain' = (uagain \/ (p = Timer /\ ulast = "failed"))
    /\ UNCHANGED <<ulast, ureport>>
    /\ UNCHANGED notUpdateVars

\* The task client_ready created (line 220) runs for the first time.
StartupRuns == upc[Startup] = "created" /\ EnterCheck(Startup)

\* asyncio.sleep(self._update_interval) is over (lines 205-206).
TimerFires == upc[Timer] = "sleep" /\ EnterCheck(Timer)

\* The user sends accupd (line 210).
ManualTrigger(k) ==
    /\ upc[Manual(k)] = "off"
    /\ \A j \in 1..(k - 1) : upc[Manual(j)] # "off"
    /\ EnterCheck(Manual(k))

\* The first waiter is given the released lock and goes on to line 167.
Wake(p) ==
    /\ upc[p] = "waiting"
    /\ _update_lock = Nobody
    /\ _waiters # <<>> /\ Head(_waiters) = p
    /\ _update_lock' = p
    /\ _waiters' = Tail(_waiters)
    /\ upc' = [upc EXCEPT ![p] = "fetch"]
    /\ UNCHANGED <<ulast, uagain, ureport>>
    /\ UNCHANGED notUpdateVars

\* _fetch_remote is over: lines 168-199, to the await of line 201 or to a
\* return, which releases the lock.
FetchDone(p, outcome) ==
    /\ upc[p] = "fetch"
    /\ IF outcome = "written"
       THEN /\ upc' = [upc EXCEPT ![p] = "reload"]
            /\ UNCHANGED <<_update_lock, ulast, uagain, ureport>>
       ELSE /\ _update_lock' = Nobody
            /\ upc' = [upc EXCEPT ![p] = IF outcome = "same" THEN Resumes(p)
                                         ELSE AfterFailure(p)]
            /\ TimerEnds(p, IF outcome = "same" THEN "same" ELSE "failed")
    /\ UNCHANGED _waiters
    /\ UNCHANGED notUpdateVars

\* reload_module is over (lines 200-201); the lock is released.
ReloadDone(p, ok) ==
    /\ upc[p] = "reload"
    /\ _update_lock' = Nobody
    /\ upc' = [upc EXCEPT ![p] = IF ok THEN Resumes(p) ELSE AfterFailure(p)]
    /\ TimerEnds(p, IF ok THEN "updated" ELSE "failed")
    /\ UNCHANGED _waiters
    /\ UNCHANGED notUpdateVars

\* accupdcmd, lines 211-212.
ManualDeletes(k) ==
    /\ upc[Manual(k)] = "delete"
    /\ upc' = [upc EXCEPT ![Manual(k)] = "done"]
    /\ UNCHANGED <<_update_lock, _waiters, ulast, uagain, ureport>>
    /\ UNCHANGED notUpdateVars

\* client_ready has returned (lines 214-220): the loop sleeps, the start-up
\* check is created and has not run yet.
InitUpdate ==
    /\ _update_lock = Nobody
    /\ _waiters = <<>>
    /\ upc = [p \in Updaters |->
                 CASE p = Startup -> "created"
                   [] p = Timer -> "sleep"
                   [] OTHER -> "off"]
    /\ ulast = "none"
    /\ uagain = FALSE
    /\ ureport = "nothing"

(***************************************************************************)
(* The scheduled sender of src/RouletteDaily.py: _loop, _send_pair and     *)
(* _parse_times.                                                           *)
(*                                                                         *)
(* One action is what the loop's task does from one await to the next: it  *)
(* awaits the two send_message calls, the pause between them and the sleep *)
(* that ends every tick.  The clock moves on its own.                      *)
(***************************************************************************)
MaxTicks == 3            \* ticks of _loop in one behaviour

\* str.split(sep): the pieces between the occurrences of sep.
RECURSIVE split(_, _)
split(s, sep) ==
    IF s = <<>> THEN << <<>> >>
    ELSE LET rest == split(Tail(s), sep)
         IN  IF Head(s) = sep THEN << <<>> >> \o rest
             ELSE << <<Head(s)>> \o rest[1] >> \o Tail(rest)

\* One token of the schedule (lines 58-65): two parts around one colon,
\* each read by int(); the hour within 0..23, the minute within 0..59.
TimeToken(token) ==
    LET parts == split(token, ":")
        hour == int(parts[1])
        minute == int(parts[2])
    IN  IF Len(parts) # 2 \/ ~hour.ok \/ ~minute.ok
        THEN [ok |-> FALSE, at |-> <<0, 0>>]
        ELSE [ok |-> hour.value >= 0 /\ hour.value <= 23
                     /\ minute.value >= 0 /\ minute.value <= 59,
              at |-> <<hour.value, minute.value>>]

NotEmpty(token) == token # <<>>

\* _parse_times (lines 51-68): the set of times of the non-empty tokens,
\* or ValueError (ok = FALSE) for a bad token or for no token at all.
_parse_times(raw) ==
    LET pieces == split(raw, ",")
        tokens == SelectSeq([k \in 1..Len(pieces) |-> strip(pieces[k])],
                            NotEmpty)
    IN  [ok |-> tokens # <<>>
                /\ \A k \in 1..Len(tokens) : TimeToken(tokens[k]).ok,
         schedule |-> {TimeToken(tokens[k]).at : k \in 1..Len(tokens)}]

\* The values of config["times"] drawn: the default, one with blanks, an
\* empty token and a single-digit hour, and three that do not parse.
RawTimes ==
    { <<"1", "0", ":", "0", "0", ",", "2", "2", ":", "0", "0">>,
      <<" ", "9", ":", "5", "9", " ", ",", "1", "0", ":", "0", "0", ",">>,
      <<"1", "0", ":", "6", "0">>,
      <<"1", "0">>,
      <<>> }

\* The readings of datetime.now(): a minute before a scheduled time, two
\* scheduled times of one day, and the first of them a day later.
Moments ==
    << [day |-> 1, hour |-> 9,  minute |-> 59],
       [day |-> 1, hour |-> 10, minute |-> 0],
       [day |-> 1, hour |-> 22, minute |-> 0],
       [day |-> 2, hour |-> 10, minute |-> 0] >>

\* The stored last_mark "" (line 77).
NoMark == [day |-> 0, hour |-> 0, minute |-> 0]

\* Lines 106-109: the exception is caught and logged, and the loop goes on
\* to its sleep.
LoopAfterFailure == "sleep"
RouletteFailureReport == "log"

\* A tick is over: the loop sleeps (line 109).
TickEnds(how) ==
    /\ rpc' = IF how = "failed" THEN LoopAfterFailure ELSE "sleep"
    /\ rlast' = how
    /\ rreport' = IF how = "failed" THEN RouletteFailureReport ELSE rreport

\* The loop starts, or its sleep is over: lines 96-103, to the first
\* send_message or to the end of the tick.
TickBegins ==
    /\ rpc \in {"created", "sleep"}
    /\ ticks < MaxTicks
    /\ ticks' = ticks + 1
    /\ ragain' = (ragain \/ rlast = "failed")
    /\ LET now_ == Moments[clock]
           parsed == _parse_times(times)
       IN  IF ~enabled THEN TickEnds("idle") /\ UNCHANGED mark
           ELSE IF ~parsed.ok THEN TickEnds("failed") /\ UNCHANGED mark
           ELSE IF <<now_.hour, now_.minute>> \in parsed.schedule
                   /\ last_mark # now_
           THEN /\ rpc' = "send1"
                /\ mark' = now_
                /\ UNCHANGED <<rlast, rreport>>
           ELSE TickEnds("idle") /\ UNCHANGED mark
    /\ UNCHANGED <<enabled, last_mark, times, clock, posted>>
    /\ UNCHANGED notRouletteVars

\* The first send_message of _send_pair is over (line 90).
Send1Done(ok) ==
    /\ rpc = "send1"
    /\ posted' = Append(posted, [msg |-> 1, mark |-> mark, ok |-> ok])
    /\ IF ok THEN rpc' = "gap" /\ UNCHANGED <<rlast, rreport>>
       ELSE TickEnds("failed")
    /\ UNCHANGED <<enabled, last_mark, times, clock, mark, ticks, ragain>>
    /\ UNCHANGED notRouletteVars

\* asyncio.sleep(1.5) is over (line 91).
GapOver ==
    /\ rpc = "gap"
    /\ rpc' = "send2"
    /\ UNCHANGED <<enabled, last_mark, times, clock, mark, posted, ticks,
                   rlast, ragain, rreport>>
    /\ UNCHANGED notRouletteVars

\* The second send_message is over (line 92); then lines 104-105.
Send2Done(ok) ==
    /\ rpc = "send2"
    /\ posted' = Append(posted, [msg |-> 2, mark |-> mark, ok |-> ok])
    /\ last_mark' = IF ok THEN mark ELSE last_mark
    /\ TickEnds(IF ok THEN "sent" ELSE "failed")
    /\ UNCHANGED <<enabled, times, clock, mark, ticks, ragain>>
    /\ UNCHANGED notRouletteVars

\* Time passes.
ClockMoves ==
    /\ rpc # "unused"
    /\ clock < Len(Moments)
    /\ clock' = clock + 1
    /\ UNCHANGED <<enabled, last_mark, times, rpc, mark, posted, ticks,
                   rlast, ragain, rreport>>
    /\ UNCHANGED notRouletteVars

\* client_ready has returned (lines 70-80): the flags are stored and the
\* loop's task is created.
InitRoulette ==
    /\ enabled \in BOOLEAN
    /\ last_mark = NoMark
    /\ times \in RawTimes
    /\ clock = 1
    /\ rpc = "created"
    /\ mark = NoMark
    /\ posted = <<>>
    /\ ticks = 0
    /\ rlast = "none"
    /\ ragain = FALSE
    /\ rreport = "nothing"

(***************************************************************************)
(* RouletteDaily's commands: roncmd, roffcmd, rtimescmd and rsendcmd.      *)
(*                                                                         *)
(* roncmd, roffcmd and rtimescmd write the store or the configuration and  *)
(* then await utils.answer, their last statement: each is one action.      *)
(* rsendcmd awaits _send_pair as the loop does.  The messages rsendcmd     *)
(* sends are not in `posted`, which holds the loop's.                      *)
(***************************************************************************)
MaxRCommands == 1        \* RouletteDaily commands in one behaviour

\* f"{n:02d}" of a number from 0 on.
Pad2(n) == IF n < 10 THEN <<"0">> \o str(n) ELSE str(n)

\* f"{h:02d}:{m:02d}"
FormatTime(t) == Pad2(t[1]) \o <<":">> \o Pad2(t[2])

\* The first of a set of (hour, minute) pairs in Python's tuple order.
Earliest(S) ==
    CHOOSE t \in S :
        \A u \in S : t[1] < u[1] \/ (t[1] = u[1] /\ t[2] <= u[2])

\* sorted(set(result)) (line 68).
RECURSIVE sorted(_)
sorted(S) ==
    IF S = {} THEN <<>> ELSE <<Earliest(S)>> \o sorted(S \ {Earliest(S)})

\* sep.join(parts)
RECURSIVE join(_, _)
join(sep, parts) ==
    IF parts = <<>> THEN <<>>
    ELSE IF Len(parts) = 1 THEN parts[1]
    ELSE parts[1] \o <<sep>> \o join(sep, Tail(parts))

\* Line 142: ",".join(f"{h:02d}:{m:02d}" for h, m in parsed)
Normalized(schedule) ==
    join(",", [k \in 1..Len(sorted(schedule)) |->
                    FormatTime(sorted(schedule)[k])])

\* Mutation of Accepts: the test for an empty argument only.
Accepts_Anything(arg) == arg # <<>>

\* Lines 134-140: the argument is not empty and _parse_times returns.
Accepts(arg) == arg # <<>> /\ _parse_times(arg).ok

\* An answer of a command.
Answer(cmd, arg, text, shown) ==
    [cmd |-> cmd, arg |-> arg, text |-> text, shown |-> shown]

NoAnswer == Answer("none", <<>>, "none", <<>>)

\* A command arrives.
CommandArrives ==
    /\ rcmds < MaxRCommands
    /\ rcmds' = rcmds + 1

\* roncmd (lines 121-124).
Ron ==
    /\ CommandArrives
    /\ enabled' = TRUE
    /\ ranswer' = Answer("ron", <<>>, "enabled", <<>>)
    /\ UNCHANGED <<last_mark, times, clock, rpc, mark, posted, ticks, rlast,
                   ragain, rreport, spc>>
    /\ UNCHANGED notRouletteCmdVars

\* roffcmd (lines 126-129).
Roff ==
    /\ CommandArrives
    /\ enabled' = FALSE
    /\ ranswer' = Answer("roff", <<>>, "disabled", <<>>)
    /\ UNCHANGED <<last_mark, times, clock, rpc, mark, posted, ticks, rlast,
                   ragain, rreport, spc>>
    /\ UNCHANGED notRouletteCmdVars

\* rtimescmd (lines 131-144) with the text `raw` after the command.
Rtimes(raw) ==
    /\ CommandArrives
    /\ LET arg == strip(raw)
       IN  IF Accepts(arg)
           THEN /\ times' = Normalized(_parse_times(arg).schedule)
                /\ ranswer' = Answer("rtimes", raw, "times_saved",
                                      Normalized(_parse_times(arg).schedule))
           ELSE /\ times' = times
                /\ ranswer' = Answer("rtimes", raw, "invalid_time", <<>>)
    /\ UNCHANGED <<enabled, last_mark, clock, rpc, mark, posted, ticks, rlast,
                   ragain, rreport, spc>>
    /\ UNCHANGED notRouletteCmdVars

\* rsendcmd goes from one await to the next, or to its answer.
RsendGoes(next, answer) ==
    /\ spc' = next
    /\ ranswer' = IF answer = "none" THEN ranswer
                  ELSE Answer("rsend", <<>>, answer, <<>>)
    /\ UNCHANGED <<enabled, times, clock, rpc, mark, posted, ticks, rlast,
                   ragain, rreport>>
    /\ UNCHANGED notRouletteCmdVars

\* rsendcmd begins (lines 146-149): the first send_message is awaited.
RsendBegins ==
    /\ spc = "idle"
    /\ CommandArrives
    /\ RsendGoes("send1", "none")
    /\ UNCHANGED last_mark

\* Its first send_message is over (line 90; line 153 when it raised).
RsendSend1Done(ok) ==
    /\ spc = "send1"
    /\ RsendGoes(IF ok THEN "gap" ELSE "idle",
                 IF ok THEN "none" ELSE "send_error")
    /\ UNCHANGED <<last_mark, rcmds>>

\* asyncio.sleep(1.5) is over (line 91).
RsendGapOver ==
    /\ spc = "gap"
    /\ RsendGoes("send2", "none")
    /\ UNCHANGED <<last_mark, rcmds>>

\* Its second send_message is over (line 92), then lines 150-152, or line
\* 153 when it raised.
RsendSend2Done(ok) ==
    /\ spc = "send2"
    /\ RsendGoes("idle", IF ok THEN "sent" ELSE "send_error")
    /\ last_mark' = IF ok THEN Moments[clock] ELSE last_mark
    /\ UNCHANGED rcmds

\* The texts sent with rtimes: those of RawTimes, a blank, times out of
\* order with one of them twice (once in plain digits, once with a sign and
\* an underscore), a text whose tokens are all empty, and
\* tokens that are not two decimal numerals around a colon: three parts, a
\* letter, an hour past 23 and one below 0, signs, blanks inside the token,
\* underscores (one between digits, two in a row, one in front), a decimal
\* digit outside ASCII and a digit that is not decimal.
RtimesArgs ==
    RawTimes \cup
    { <<" ">>,
      <<"2", "2", ":", "0", "0", ",", "9", ":", "5", "9", ",",
        "2", "2", ":", "0">>,
      <<"2", "2", ":", "0", "0", ",", "+", "9", ":", "5", "9", ",",
        "2", "_", "2", ":", "0">>,
      <<",">>,
      <<"1", ":", "2", ":", "3">>,
      <<"a", ":", "0", "0">>,
      <<"2", "4", ":", "0", "0">>,
      <<"-", "1", ":", "0", "0">>,
      <<"+", "9", ":", "0", "5">>,
      <<"-", "0", ":", "0", "0">>,
      <<"9", " ", ":", " ", "5">>,
      <<"1", "_", "0", ":", "0", "0">>,
      <<"1", "_", "_", "0", ":", "0", "0">>,
      <<"_", "1", ":", "0", "0">>,
      <<ARABIC3, ":", "0", "0">>,
      <<SUP2, ":", "0", "0">> }

InitRouletteCmd == spc = "idle" /\ rcmds = 0 /\ ranswer = NoAnswer

(***************************************************************************)
(* The loop tasks the two modules create in client_ready.                  *)
(*                                                                         *)
(* A task is "alive" from asyncio.create_task on, "cancelling" once        *)
(* cancel() was called on it, and "done" when it has ended: a cancelled    *)
(* task ends at its next await, where CancelledError, which `except        *)
(* Exception` does not catch, is raised in it.  RouletteDaily.client_ready *)
(* has no await, so it is one step; AccountManager.client_ready awaits     *)
(* _refresh_accounts(force=True) (line 217) before it looks at             *)
(* self._update_task, so several of its invocations can be inside          *)
(* _refresh_accounts at once, each awaiting its get_me() calls and each    *)
(* storing the roster and its timestamp when its loop is over.  The host   *)
(* may call client_ready and on_unload at any time.                        *)
(***************************************************************************)
MaxReady == 3            \* client_ready calls per module in one behaviour

NeedsLoop_Always(task, tasks) == TRUE

\* RouletteDaily, line 79: `not self._task or self._task.done()`
NeedsLoop(task, tasks) == task = 0 \/ tasks[task] = "done"

\* AccountManager, line 218: `not self._update_task`
NeedsUpdateLoop(task) == task = 0

\* RouletteDaily.client_ready (lines 70-80).
RouletteReady ==
    /\ readies.roulette < MaxReady
    /\ readies' = [readies EXCEPT !.roulette = @ + 1]
    /\ IF NeedsLoop(_task, rtasks)
       THEN /\ rtasks' = Append(rtasks, "alive")
            /\ _task' = Len(rtasks) + 1
       ELSE UNCHANGED <<rtasks, _task>>
    /\ UNCHANGED <<_update_task, utasks, readying>>
    /\ UNCHANGED notLifeVars

\* RouletteDaily.on_unload (lines 82-84): the running task is cancelled.
RouletteUnload ==
    /\ _task # 0
    /\ rtasks[_task] = "alive"
    /\ rtasks' = [rtasks EXCEPT ![_task] = "cancelling"]
    /\ UNCHANGED <<_task, _update_task, utasks, readying, readies>>
    /\ UNCHANGED notLifeVars

\* A cancelled _loop task ends.
LoopCancelled(k) ==
    /\ k <= Len(rtasks)
    /\ rtasks[k] = "cancelling"
    /\ rtasks' = [rtasks EXCEPT ![k] = "done"]
    /\ UNCHANGED <<_task, _update_task, utasks, readying, readies>>
    /\ UNCHANGED notLifeVars

\* The variables AccountManager.client_ready and its _refresh_accounts
\* leave alone.
notManagerReadyVars ==
    <<resolveVars, ensureVars, commandVars, updateVars, rouletteVars,
      rcmdVars, genshinVars>>

\* AccountManager.client_ready begins (lines 214-217): it keeps the host's
\* client and calls _refresh_accounts(force=True), which awaits its first
\* get_me() (lines 223-235).  Invocation number p of the behaviour runs in
\* frame p.
ManagerReadyBegins ==
    /\ readies.manager < MaxReady
    /\ readies' = [readies EXCEPT !.manager = @ + 1]
    /\ readying' = readying + 1
    /\ _client' = 1
    /\ RefreshFrame(readies.manager + 1, TRUE, 1)
    /\ UNCHANGED <<_task, rtasks, _update_task, utasks>>
    /\ UNCHANGED notManagerReadyVars

\* A get_me() awaited by the _refresh_accounts of invocation p returns (ok)
\* or raises (lines 235-239).
ReadyGetMe(p, ok) ==
    /\ p <= readies.manager
    /\ IF ok THEN GetMeReturned(p) ELSE GetMeRaised(p)

\* The get_me() was not the last: the next one is awaited (lines 233-235).
ManagerReadyQueries(p, ok) ==
    /\ ReadyGetMe(p, ok)
    /\ call'[p].pc # "idle"
    /\ UNCHANGED lifeVars
    /\ UNCHANGED notManagerReadyVars

\* The get_me() was the last: _refresh_accounts stores the roster and its
\* timestamp and returns (lines 241-243), and client_ready goes on to its
\* end (lines 218-220).
ManagerReadyResumes(p, ok) ==
    /\ ReadyGetMe(p, ok)
    /\ call'[p].pc = "idle"
    /\ readying' = readying - 1
    /\ IF NeedsUpdateLoop(_update_task)
       THEN /\ utasks' = Append(utasks, "alive")
            /\ _update_task' = Len(utasks) + 1
       ELSE UNCHANGED <<utasks, _update_task>>
    /\ UNCHANGED <<_task, rtasks, readies>>
    /\ UNCHANGED notManagerReadyVars

\* __init__ of both modules (RouletteDaily line 49, AccountManager lines
\* 93-94 and 108): no task, no roster and no client yet; the host knows
\* its sessions, none (line 230 falls back on the client) or two.
InitLife ==
    /\ _task = 0 /\ rtasks = <<>>
    /\ _update_task = 0 /\ utasks = <<>>
    /\ readying = 0
    /\ readies = [roulette |-> 0, manager |-> 0]
    /\ now = 0
    /\ _client = 0
    /\ allclients \in {<<>>, <<1, 2>>}
    /\ userOf = [s \in Sessions |-> UserList[s]]
    /\ _accounts_cache = <<>>
    /\ _accounts_cache_ts = 0
    /\ call = [p \in 1..MaxReady |-> Idle]
    /\ started = 0
    /\ lastCall = NoCall

(***************************************************************************)
(* Genshin: the saved UIDs (commands enuid and endeluid).                  *)
(*                                                                         *)
(* The host's database keeps two values for the module: the alias map      *)
(* under DB_UID_MAP_KEY and the default UID under DB_DEFAULT_UID_KEY.      *)
(* The map is a function from alias to UID.  Both commands write the       *)
(* database before their only await (the answer), so each is one step.     *)
(***************************************************************************)
MaxGCommands == 3        \* Genshin commands in one behaviour

\* The empty alias map.
NoAliases == [a \in {} |-> <<>>]

\* No UID: None, which `if direct:` (line 601) takes like an empty text.
NoUid == <<>>

\* UID_RE.fullmatch (line 26): nine or ten decimal digits.
UID_RE(s) == Len(s) \in 9..10 /\ \A i \in 1..Len(s) : s[i] \in DecimalChars

\* The length of the first word of a text that begins with one.
RECURSIVE WordEnd(_)
WordEnd(s) == IF s = <<>> \/ Head(s) = " " THEN 0 ELSE 1 + WordEnd(Tail(s))

\* str.split() without a separator: the words between runs of blanks.
RECURSIVE words(_)
words(s) ==
    IF s = <<>> THEN <<>>
    ELSE IF Head(s) = " " THEN words(Tail(s))
    ELSE <<SubSeq(s, 1, WordEnd(s))>>
             \o words(SubSeq(s, WordEnd(s) + 1, Len(s)))

\* _uid_map (lines 567-577): the stored map with its aliases stripped and
\* lowered, without the entries whose alias is empty or whose UID is none.
_uid_map ==
    LET kept == {k \in DOMAIN saved_uids :
                    /\ lower(strip(k)) # <<>>
                    /\ UID_RE(strip(saved_uids[k]))}
    IN  [a \in {lower(strip(k)) : k \in kept} |->
            strip(saved_uids[CHOOSE k \in kept : lower(strip(k)) = a])]

\* _default_uid (lines 582-586)
_default_uid ==
    IF UID_RE(strip(default_uid)) THEN strip(default_uid) ELSE NoUid

\* _resolve_uid_direct (lines 591-597)
_resolve_uid_direct(token) ==
    IF token = <<>> THEN NoUid
    ELSE IF UID_RE(strip(token)) THEN strip(token)
    ELSE IF lower(strip(token)) \in DOMAIN _uid_map
         THEN _uid_map[lower(strip(token))]
    ELSE NoUid

\* _resolve_uid (lines 599-603)
_resolve_uid(token) ==
    IF _resolve_uid_direct(token) # NoUid THEN _resolve_uid_direct(token)
    ELSE _default_uid

\* mapping[alias] = uid (line 1071)
put(mapping, alias, uid) ==
    [a \in DOMAIN mapping \cup {alias} |->
        IF a = alias THEN uid ELSE mapping[a]]

pop_Everything(mapping, alias) == NoAliases

\* mapping.pop(alias) (line 1085): the map that is left.
pop(mapping, alias) == [a \in DOMAIN mapping \ {alias} |-> mapping[a]]

\* enuid (lines 1037-1074).  `raw` is utils.get_args_raw(message).
Enuid(raw) ==
    LET text == strip(raw)
        mapping == _uid_map
        parts == words(text)
    IN  /\ gcmds < MaxGCommands
        /\ gcmds' = gcmds + 1
        /\ IF text = <<>>
           THEN /\ ganswer' = Answer("enuid", raw, "listed", _default_uid)
                /\ UNCHANGED <<saved_uids, default_uid>>
           ELSE IF Len(parts) = 1
           THEN IF ~UID_RE(parts[1])
                THEN /\ ganswer' = Answer("enuid", raw, "bad_uid", <<>>)
                     /\ UNCHANGED <<saved_uids, default_uid>>
                ELSE /\ default_uid' = parts[1]
                     /\ ganswer' =
                            Answer("enuid", raw, "default_saved", parts[1])
                     /\ UNCHANGED saved_uids
           ELSE IF lower(strip(parts[1])) = <<>>
           THEN /\ ganswer' = Answer("enuid", raw, "no_alias", <<>>)
                /\ UNCHANGED <<saved_uids, default_uid>>
           ELSE IF ~UID_RE(strip(parts[2]))
           THEN /\ ganswer' = Answer("enuid", raw, "bad_uid", <<>>)
                /\ UNCHANGED <<saved_uids, default_uid>>
           ELSE /\ saved_uids' =
                       put(mapping, lower(strip(parts[1])), strip(parts[2]))
                /\ default_uid' = strip(parts[2])
                /\ ganswer' =
                       Answer("enuid", raw, "saved", strip(parts[2]))
        /\ UNCHANGED notGenshinVars

\* endeluid (lines 1076-1087)
Endeluid(raw) ==
    LET alias == lower(strip(raw))
        mapping == _uid_map
    IN  /\ gcmds < MaxGCommands
        /\ gcmds' = gcmds + 1
        /\ IF alias = <<>>
           THEN /\ ganswer' = Answer("endeluid", raw, "usage", <<>>)
                /\ UNCHANGED saved_uids
           ELSE IF alias \notin DOMAIN mapping
           THEN /\ ganswer' = Answer("endeluid", raw, "not_found", <<>>)
                /\ UNCHANGED saved_uids
           ELSE /\ saved_uids' = pop(mapping, alias)
                /\ ganswer' =
                       Answer("endeluid", raw, "deleted", mapping[alias])
        /\ UNCHANGED default_uid
        /\ UNCHANGED notGenshinVars

\* The texts drawn as the argument of enuid and of endeluid.
EnuidArgs ==
    { <<>>,
      <<"8", "6", "2", "2", "7", "8", "8", "6", "7">>,
      <<"a", "s", " ", "8", "6", "2", "2", "7", "8", "8", "6", "7">>,
      <<" ", "B", "o", " ", " ", "1", "2", "3", "4", "5", "6", "7", "8", "9", "0", " ">>,
      <<"a", "s", " ", "1", "1", "1", "1", "1", "1", "1", "1", "1", " ", "x">>,
      <<"b", "o", " ", "1", "2", "3", "4", "5", "6", "7", "8">>,
      <<"a", "s">> }
EndeluidArgs ==
    { <<>>,
      <<"a", "s">>,
      <<" ", "A", "S", " ">>,
      <<"b", "o">>,
      <<"f", "o">> }

\* A database without a value under either key (the defaults of lines 568
\* and 583).
InitGenshin ==
    /\ saved_uids = NoAliases /\ default_uid = <<>> /\ gcmds = 0
    /\ ganswer = NoAnswer

\* The variables of a part of the model that a specification does not run.
ResolveUnused ==
    selector = <<>> /\ accounts = <<>> /\ resolved = None /\ pc = "unused"
RefreshUnused ==
    /\ now = 0 /\ _client = 1 /\ allclients = <<>>
    /\ userOf = [s \in Sessions |-> UserList[s]]
    /\ _accounts_cache = <<>> /\ _accounts_cache_ts = 0
    /\ call = [p \in Callers |-> Idle] /\ started = 0 /\ lastCall = NoCall
EnsureUnused ==
    /\ chatUsername = FALSE /\ targetIsMain = FALSE /\ member = FALSE
    /\ epc = "unused" /\ elog = <<>> /\ eresult = "none" /\ eruns = 0
    /\ eprev = "none"
UpdateUnused ==
    /\ _update_lock = Nobody /\ _waiters = <<>>
    /\ upc = [p \in Updaters |-> "unused"]
    /\ ulast = "none" /\ uagain = FALSE /\ ureport = "nothing"
RouletteUnused ==
    /\ enabled = FALSE /\ last_mark = NoMark /\ times = <<>> /\ clock = 1
    /\ rpc = "unused" /\ mark = NoMark /\ posted = <<>> /\ ticks = 0
    /\ rlast = "none" /\ ragain = FALSE /\ rreport = "nothing"
RouletteCmdUnused == spc = "unused" /\ rcmds = 0 /\ ranswer = NoAnswer
LifeUnused ==
    /\ _task = 0 /\ rtasks = <<>> /\ _update_task = 0 /\ utasks = <<>>
    /\ readying = 0 /\ readies = [roulette |-> 0, manager |-> 0]
GenshinUnused ==
    /\ saved_uids = NoAliases /\ default_uid = <<>> /\ gcmds = 0
    /\ ganswer = NoAnswer
CommandUnused ==
    /\ command = "none" /\ args = <<>> /\ isReply = FALSE /\ snapshot = <<>>
    /\ cpc = "unused" /\ silent = FALSE /\ targets = <<>> /\ count = 0
    /\ iter = 0 /\ success = 0 /\ reason = 0 /\ trace = <<>>
    /\ replies = <<>> /\ deleted = FALSE

\* _resolve_account applied to every drawn selector and roster.
InitSpecResolve ==
    /\ InitResolve
    /\ RefreshUnused /\ EnsureUnused /\ CommandUnused /\ UpdateUnused
    /\ RouletteUnused /\ RouletteCmdUnused /\ LifeUnused
    /\ GenshinUnused
NextResolve == Resolve
SpecResolve == InitSpecResolve /\ [][NextResolve]_vars

\* The roster cache under overlapping invocations and a moving clock.
InitSpecRefresh ==
    /\ InitRefresh
    /\ ResolveUnused /\ EnsureUnused /\ CommandUnused /\ UpdateUnused
    /\ RouletteUnused /\ RouletteCmdUnused /\ LifeUnused
    /\ GenshinUnused
NextRefresh ==
    \/ \E p \in Callers, force \in BOOLEAN : BeginRefresh(p, force)
    \/ \E p \in Callers : GetMeReturns(p)
    \/ \E p \in Callers : GetMeRaises(p)
    \/ \E t \in Times : Tick(t)
SpecRefresh == InitSpecRefresh /\ [][NextRefresh]_vars

\* _ensure_in_chat under every outcome of every request it issues.
InitSpecEnsure ==
    /\ InitEnsure
    /\ ResolveUnused /\ RefreshUnused /\ CommandUnused /\ UpdateUnused
    /\ RouletteUnused /\ RouletteCmdUnused /\ LifeUnused
    /\ GenshinUnused
NextEnsure ==
    \/ EnsureBegin
    \/ \E req \in Requests, link \in BOOLEAN : RequestReturns(req, link)
    \/ \E req \in Requests : RequestRaises(req)
SpecEnsure == InitSpecEnsure /\ [][NextEnsure]_vars

\* One command, under every outcome of every request it makes.
InitSpecCommand ==
    /\ InitCommand
    /\ ResolveUnused /\ UpdateUnused
    /\ RouletteUnused /\ RouletteCmdUnused /\ LifeUnused
    /\ GenshinUnused
NextCommand ==
    \/ ListAcc
    \/ SayBegin
    \/ ReportBegin
    \/ JoinBegin
    \/ SpamBegin
    \/ \E ok \in BOOLEAN : RosterGetMe(ok)
    \/ ReplyFetched
    \/ ChatFetched
    \/ \E ok \in BOOLEAN : SaySend(ok)
    \/ \E ok \in BOOLEAN : SpamSend(ok)
    \/ \E req \in Requests, ok \in BOOLEAN, link \in BOOLEAN :
          EnsureRequest(req, ok, link)
    \/ \E ok \in BOOLEAN : ReportEntity(ok)
    \/ \E ok \in BOOLEAN : ReportSent(ok)
    \/ Told
    \/ Slept
    \/ RoundSlept
    \/ Answered
    \/ Deleted
SpecCommand == InitSpecCommand /\ [][NextCommand]_vars

\* The tasks that run the self-update, under every interleaving.
InitSpecUpdate ==
    /\ InitUpdate
    /\ ResolveUnused /\ RefreshUnused /\ EnsureUnused /\ CommandUnused
    /\ RouletteUnused /\ RouletteCmdUnused /\ LifeUnused
    /\ GenshinUnused
NextUpdate ==
    \/ StartupRuns
    \/ TimerFires
    \/ \E k \in 1..MaxManual : ManualTrigger(k)
    \/ \E p \in Updaters : Wake(p)
    \/ \E p \in Updaters, outcome \in FetchOutcomes : FetchDone(p, outcome)
    \/ \E p \in Updaters, ok \in BOOLEAN : ReloadDone(p, ok)
    \/ \E k \in 1..MaxManual : ManualDeletes(k)
SpecUpdate == InitSpecUpdate /\ [][NextUpdate]_vars

\* The background loops.  The two modules share no state, so a behaviour
\* follows one of them: AccountManager's self-update tasks or
\* RouletteDaily's loop.
InitSpecBackground ==
    /\ \/ InitUpdate /\ RouletteUnused
       \/ InitRoulette /\ UpdateUnused
    /\ ResolveUnused /\ RefreshUnused /\ EnsureUnused /\ CommandUnused
    /\ RouletteCmdUnused /\ LifeUnused
    /\ GenshinUnused
NextBackground ==
    \/ StartupRuns
    \/ TimerFires
    \/ \E k \in 1..MaxManual : ManualTrigger(k)
    \/ \E p \in Updaters : Wake(p)
    \/ \E p \in Updaters, outcome \in FetchOutcomes : FetchDone(p, outcome)
    \/ \E p \in Updaters, ok \in BOOLEAN : ReloadDone(p, ok)
    \/ \E k \in 1..MaxManual : ManualDeletes(k)
    \/ TickBegins
    \/ \E ok \in BOOLEAN : Send1Done(ok)
    \/ GapOver
    \/ \E ok \in BOOLEAN : Send2Done(ok)
    \/ ClockMoves
SpecBackground == InitSpecBackground /\ [][NextBackground]_vars

\* RouletteDaily: its loop and its commands.
InitSpecRoulette ==
    /\ InitRoulette /\ InitRouletteCmd
    /\ ResolveUnused /\ RefreshUnused /\ EnsureUnused /\ CommandUnused
    /\ UpdateUnused /\ LifeUnused
    /\ GenshinUnused
NextRoulette ==
    \/ TickBegins
    \/ \E ok \in BOOLEAN : Send1Done(ok)
    \/ GapOver
    \/ \E ok \in BOOLEAN : Send2Done(ok)
    \/ ClockMoves
    \/ Ron
    \/ Roff
    \/ \E raw \in RtimesArgs : Rtimes(raw)
    \/ RsendBegins
    \/ \E ok \in BOOLEAN : RsendSend1Done(ok)
    \/ RsendGapOver
    \/ \E ok \in BOOLEAN : RsendSend2Done(ok)
SpecRoulette == InitSpecRoulette /\ [][NextRoulette]_vars

\* RouletteDaily's commands alone: the behaviours in which they are handled
\* while the loop's task waits.
NextRouletteCmd ==
    \/ ClockMoves
    \/ Ron
    \/ Roff
    \/ \E raw \in RtimesArgs : Rtimes(raw)
    \/ RsendBegins
    \/ \E ok \in BOOLEAN : RsendSend1Done(ok)
    \/ RsendGapOver
    \/ \E ok \in BOOLEAN : RsendSend2Done(ok)
SpecRouletteCmd == InitSpecRoulette /\ [][NextRouletteCmd]_vars

\* The life of the loop tasks of both modules.
InitSpecLife ==
    /\ InitLife
    /\ ResolveUnused /\ EnsureUnused /\ CommandUnused
    /\ UpdateUnused /\ RouletteUnused /\ RouletteCmdUnused
    /\ GenshinUnused
NextLife ==
    \/ RouletteReady
    \/ RouletteUnload
    \/ \E k \in 1..MaxReady : LoopCancelled(k)
    \/ ManagerReadyBegins
    \/ \E p \in 1..MaxReady, ok \in BOOLEAN : ManagerReadyQueries(p, ok)
    \/ \E p \in 1..MaxReady, ok \in BOOLEAN : ManagerReadyResumes(p, ok)
SpecLife == InitSpecLife /\ [][NextLife]_vars

\* The commands of Genshin that write the saved UIDs.
InitSpecGenshin ==
    /\ InitGenshin
    /\ ResolveUnused /\ RefreshUnused /\ EnsureUnused /\ CommandUnused
    /\ UpdateUnused /\ RouletteUnused /\ RouletteCmdUnused /\ LifeUnused
NextGenshin ==
    \/ \E raw \in EnuidArgs : Enuid(raw)
    \/ \E raw \in EndeluidArgs : Endeluid(raw)
SpecGenshin == InitSpecGenshin /\ [][NextGenshin]_vars

(***************************************************************************)
(* Vocabulary of the properties.                                           *)
(***************************************************************************)
Least(S) == CHOOSE i \in S : \A j \in S : i <= j

\* s is the decimal text of a valid 1-based position of the roster.
PositionMatch(s, accs) ==
    isdecimal(s) /\ 1 <= DecValue(s) /\ DecValue(s) <= Len(accs)

\* s is decimal digits after at most one leading '-'.
SignedDecimal(s) ==
    isdecimal(s) \/ (s # <<>> /\ Head(s) = "-" /\ isdecimal(Tail(s)))
SignedValue(s) ==
    IF Head(s) = "-" THEN 0 - DecValue(Tail(s)) ELSE DecValue(s)

\* The entries (1-based) whose numeric_id is x.
WithId(x, accs) == {i \in 1..Len(accs) : accs[i].user.id = x}

IdMatch(s, accs) == SignedDecimal(s) /\ WithId(SignedValue(s), accs) # {}

Fold(c) == IF c = "A" THEN "a" ELSE c
SameIgnoringCase(a, b) ==
    Len(a) = Len(b) /\ \A i \in 1..Len(a) : Fold(a[i]) = Fold(b[i])

\* The entries (1-based) whose handle is s, ignoring case and the leading
\* '@' marker of s.
WithHandle(s, accs) ==
    {i \in 1..Len(accs) :
        /\ accs[i].user.username # <<>>
        /\ SameIgnoringCase(accs[i].user.username, lstrip(s, "@"))}

HandleMatch(s, accs) == WithHandle(s, accs) # {}

\* The selector is decided by the handle step: the position and the id
\* steps give nothing.
ReachesHandleStep(s, accs) ==
    s # <<>> /\ ByPosition(s, accs) = None /\ ByUserId(s, accs) = None

\* Every re-casing of s.
RECURSIVE Recasings(_)
Recasings(s) ==
    IF s = <<>> THEN {<<>>}
    ELSE LET variants == IF Fold(Head(s)) = "a" THEN {"a", "A"} ELSE {Head(s)}
         IN  {<<c>> \o t : c \in variants, t \in Recasings(Tail(s))}

(***************************************************************************)
(* Properties of _resolve_account (specification SpecResolve).             *)
(***************************************************************************)

\* C1: for every roster and every k in 1..len(roster), resolving str(k)
\* gives k - 1, also when another entry has numeric_id k or handle str(k).
C1_PositionWins ==
    pc = "done" =>
        \A k \in 1..Len(accounts) :
            selector = str(k) => resolved = Found(k - 1)

C1_Witness ==
    /\ pc = "done"
    /\ \E k \in 1..Len(accounts) :
        /\ selector = str(k)
        /\ resolved = Found(k - 1)
        /\ \E i, j \in 1..Len(accounts) :
            /\ i # k /\ j # k
            /\ accounts[i].user.id = k
            /\ accounts[j].user.username = str(k)

\* C2: when the roster has an entry with numeric_id x (x may be negative)
\* and x is not a valid 1-based position, resolving str(x) gives the index
\* of the first entry whose numeric_id is x.
C2_IdLookup ==
    pc = "done" =>
        \A n \in 1..Len(accounts) :
            LET x == accounts[n].user.id
            IN  (selector = str(x) /\ ~(1 <= x /\ x <= Len(accounts)))
                    => resolved = Found(Least(WithId(x, accounts)) - 1)

C2_Witness ==
    /\ pc = "done"
    /\ \E n \in 2..Len(accounts) :
        LET x == accounts[n].user.id
        IN  /\ x < 0
            /\ selector = str(x)
            /\ Cardinality(WithId(x, accounts)) >= 2
            /\ Least(WithId(x, accounts)) = n
            /\ resolved = Found(n - 1)

\* C3: a selector decided by the handle step resolves to the first entry
\* whose handle equals it ignoring case and the '@' marker, and so does
\* every re-casing of it, with or without one more leading '@'.
C3_HandleInsensitive ==
    (pc = "done" /\ ReachesHandleStep(selector, accounts)
                 /\ HandleMatch(selector, accounts)) =>
        LET first == Found(Least(WithHandle(selector, accounts)) - 1)
        IN  /\ resolved = first
            /\ \A t \in Recasings(selector) :
                /\ _resolve_account(t, accounts) = first
                /\ _resolve_account(<<"@">> \o t, accounts) = first

C3_Witness ==
    /\ pc = "done"
    /\ ReachesHandleStep(selector, accounts)
    /\ Head(selector) # "@"
    /\ \E i \in 1..Len(selector) : selector[i] = "A"
    /\ \E i \in 1..Len(selector) : selector[i] = "a"
    /\ Cardinality(WithHandle(selector, accounts)) >= 2
    /\ Least(WithHandle(selector, accounts)) >= 2
    /\ accounts[Least(WithHandle(selector, accounts))].user.username
            # selector
    /\ resolved = Found(Least(WithHandle(selector, accounts)) - 1)

\* C4: the outcome is None for every selector that is no valid position,
\* no numeric_id of an entry and no handle of an entry, and it is an index
\* only when one of the three matches exists.
C4_NotFoundWithoutMatch ==
    pc = "done" =>
        LET match == \/ PositionMatch(selector, accounts)
                     \/ IdMatch(selector, accounts)
                     \/ HandleMatch(selector, accounts)
        IN  /\ ~match => resolved = None
            /\ resolved.kind = "index" => match

\* C5: for every selector and roster the call ends with an index in
\* [0, len(roster)) or with None, never with an exception.
C5_Total ==
    pc = "done" =>
        \/ resolved = None
        \/ /\ resolved.kind = "index"
           /\ 0 <= resolved.index /\ resolved.index < Len(accounts)

(***************************************************************************)
(* Properties of _refresh_accounts (specification SpecRefresh).  They read *)
(* lastCall, the invocation that has just returned: every invocation is    *)
(* lastCall in the state it returns to.                                    *)
(***************************************************************************)
ConfiguredSessions == IF allclients # <<>> THEN allclients ELSE <<_client>>

\* The roster of the sessions of c.clients that answered, in their order.
AnsweredRoster(c) ==
    LET ok == SelectSeq(c.clients, LAMBDA x : x \notin c.raised)
    IN  [i \in 1..Len(ok) |-> [client |-> ok[i], user |-> userOf[ok[i]]]]

\* C6 as stated: after any call, a call with force=False issued less than 60
\* time-units after it returns the same roster as that call and queries no
\* session.
C6_SecondCallServed ==
    (/\ lastCall.n > 0
     /\ ~lastCall.force
     /\ lastCall.entry.prevAny
     /\ lastCall.entry.prevRecent) =>
        /\ lastCall.ret = lastCall.entry.prevRet
        /\ lastCall.queried = <<>>

\* C6 as amended: after a call that re-queried the sessions and stored a
\* non-empty roster, a call with force=False issued less than 60 time-units
\* after it, no other call having returned in between, returns that roster
\* and queries no session.
C6_FreshCacheServed ==
    (/\ lastCall.n > 0
     /\ ~lastCall.force
     /\ lastCall.entry.prevAny
     /\ lastCall.entry.prevQueried
     /\ lastCall.entry.prevRet # <<>>
     /\ lastCall.entry.prevRecent) =>
        /\ lastCall.ret = lastCall.entry.prevRet
        /\ lastCall.queried = <<>>

C6_Witness ==
    /\ lastCall.n = 2
    /\ ~lastCall.force
    /\ lastCall.entry.prevQueried
    /\ lastCall.entry.prevRet # <<>>
    /\ lastCall.entry.prevRecent
    /\ now = FRESH - 1
    /\ _accounts_cache_ts = 0
    /\ lastCall.ret = lastCall.entry.prevRet
    /\ lastCall.queried = <<>>

\* C7: a call that finds force true, or the cache empty, or 60 or more
\* time-units passed since the last refresh, queries every configured
\* session and replaces the cache and its timestamp when it returns.
C7_RequeryWhenDue ==
    [][(/\ lastCall'.n # lastCall.n
        /\ \/ lastCall'.force
           \/ lastCall'.entry.sawEmpty
           \/ lastCall'.entry.sawStale) =>
            /\ lastCall'.queried = ConfiguredSessions
            /\ _accounts_cache' = lastCall'.ret
            /\ _accounts_cache_ts' = now']_vars

C7_Witness ==
    /\ lastCall.n > 0
    /\ lastCall.force
    /\ ~lastCall.entry.sawEmpty
    /\ ~lastCall.entry.sawStale
    /\ Len(ConfiguredSessions) >= 2
    /\ lastCall.queried = ConfiguredSessions
    /\ _accounts_cache = lastCall.ret
    /\ _accounts_cache # lastCall.entry.prevRet
    /\ _accounts_cache_ts = now
    /\ now > 0

\* C8: a re-querying call returns the roster of exactly the sessions whose
\* get_me() succeeded, each once, in the order of enumeration, and it has
\* queried every session, those after a failing one included.
C8_PartialRoster ==
    (lastCall.n > 0 /\ lastCall.queried # <<>>) =>
        /\ lastCall.queried = lastCall.clients
        /\ lastCall.ret = AnsweredRoster(lastCall)

C8_Witness ==
    /\ lastCall.n > 0
    /\ Len(lastCall.clients) >= 2
    /\ lastCall.clients[1] \in lastCall.raised
    /\ lastCall.queried = lastCall.clients
    /\ lastCall.ret # <<>>
    /\ lastCall.ret = AnsweredRoster(lastCall)

\* C9: whenever the cached roster is non-empty, exactly one of its entries
\* is the primary account (its client is the coordinator's own session).
C9_OnePrimary ==
    _accounts_cache # <<>> =>
        Cardinality({i \in 1..Len(_accounts_cache) :
                        _accounts_cache[i].client = _client}) = 1

\* C10: no two entries of the cached roster have the same numeric_id.
C10_DistinctIds ==
    \A i, j \in 1..Len(_accounts_cache) :
        i # j => _accounts_cache[i].user.id # _accounts_cache[j].user.id

(***************************************************************************)
(* Properties of _ensure_in_chat.                                          *)
(***************************************************************************)
\* An invocation of _ensure_in_chat has returned (or raised).
EnsureFinished == epc = "idle" /\ eruns > 0

\* The escalation step a request belongs to: 1 the permission check, 2 the
\* join by public username, 3 the invite link, 4 the direct invitation.
StepOf(req) ==
    CASE req = "perm" -> 1
      [] req = "join_handle" -> 2
      [] req \in {"main_entity", "export", "join_link", "perm_link"} -> 3
      [] req \in {"main_perm", "invite", "perm_invite"} -> 4

\* The place of a request in the fixed order of the function's text.
PlaceOf(req) ==
    CASE req = "perm" -> 1 [] req = "join_handle" -> 2
      [] req = "main_entity" -> 3 [] req = "export" -> 4
      [] req = "join_link" -> 5 [] req = "perm_link" -> 6
      [] req = "main_perm" -> 7 [] req = "invite" -> 8
      [] req = "perm_invite" -> 9

\* The requests are issued in the fixed order, none twice, beginning with
\* the permission check.
InFixedOrder ==
    /\ elog # <<>> => elog[1].req = "perm"
    /\ \A j, k \in 1..Len(elog) :
          j < k => PlaceOf(elog[j].req) < PlaceOf(elog[k].req)

\* A request has yielded what the code asked it for: it returned, the
\* export with a link.
Yielded(e) == e.ok /\ (e.req = "export" => e.link)

\* A step has failed when the last request issued for it raised or
\* yielded no link.
LastOfStep(st) ==
    Least({0 - k : k \in {j \in 1..Len(elog) : StepOf(elog[j].req) = st}})
StepAttempted(st) == \E j \in 1..Len(elog) : StepOf(elog[j].req) = st
StepFailed(st) == StepAttempted(st) /\ ~Yielded(elog[0 - LastOfStep(st)])

\* A step is attempted only after every earlier step that was attempted
\* has failed; the username step is left out only for a chat without one.
OnlyAfterFailures ==
    \A k \in 1..Len(elog) : \A st \in 1..(StepOf(elog[k].req) - 1) :
        /\ StepAttempted(st) => StepFailed(st)
        /\ st = 1 => StepAttempted(st)
        /\ st = 2 => (StepAttempted(st) <=> chatUsername)
        /\ st = 3 => StepAttempted(st)

\* C13: _ensure_in_chat never raises, whichever of its requests fail: it
\* returns True or False, True exactly when the last request it issued
\* returned (the export with a link), and False when every request it
\* issued has failed.
C13_NeverRaises ==
    /\ eresult # RAISES
    /\ EnsureFinished =>
          /\ eresult \in {RET_TRUE, RET_FALSE}
          /\ elog # <<>>
          /\ eresult = RET_TRUE <=> Yielded(elog[Len(elog)])
          /\ (\A k \in 1..Len(elog) : ~Yielded(elog[k]))
                => eresult = RET_FALSE

\* Every request has failed, the direct invitation included.
C13_Witness ==
    /\ EnsureFinished
    /\ eresult = RET_FALSE
    /\ \A k \in 1..Len(elog) : ~elog[k].ok
    /\ \E k \in 1..Len(elog) : elog[k].req = "main_entity"
    /\ elog[Len(elog)].req = "main_perm"

\* The account was in the chat when this invocation began: it is in the
\* chat, and no request of this invocation that puts an account into the
\* chat has returned.
MemberBefore ==
    /\ eruns > 0
    /\ member
    /\ \A k \in 1..Len(elog) : ~(elog[k].ok /\ elog[k].req \in Joins)

\* The invocation has asked for a join, a link or an invitation.
SideEffect == \E k \in 1..Len(elog) : elog[k].req \in Joins \cup {"export"}

\* C14: the requests are issued in the fixed order permission check, join
\* by username, invite link, direct invitation; a step is attempted only
\* after every earlier step failed; once the account was found in the chat
\* or a join, link import or invitation went through, no further join,
\* export or invitation is issued; and for an account that is already a
\* member no join, export or invitation is issued at all.
C14_StopsAtFirstSuccess ==
    /\ InFixedOrder
    /\ OnlyAfterFailures
    /\ \A j, k \in 1..Len(elog) :
          (j < k /\ elog[j].ok /\ elog[j].req \in {"perm"} \cup Joins)
              => elog[k].req \notin Joins \cup {"export"}
    /\ MemberBefore => ~SideEffect

\* The request at which the function returns True.
Succeeds(j) ==
    elog[j].ok /\ elog[j].req \in OwnPermissionQueries \cup {"join_handle"}

\* What does hold of the escalation, whichever requests fail: the fixed
\* order; a step only after every earlier step failed; no request after the
\* one at which the function returns True; no direct invitation (step d)
\* when the target is the primary account; and the permission check alone
\* when that check returns.
EscalatesInOrder ==
    /\ InFixedOrder
    /\ OnlyAfterFailures
    /\ \A j \in 1..Len(elog) :
          Succeeds(j) => j = Len(elog) /\ epc = "idle" /\ eresult = RET_TRUE
    /\ targetIsMain => \A k \in 1..Len(elog) : StepOf(elog[k].req) # 4
    /\ (elog # <<>> /\ elog[1].ok) => Len(elog) = 1

(***************************************************************************)
(* Properties of the command handlers.                                     *)
(***************************************************************************)
\* The handler has returned or raised.
CommandFinished == cpc \in {"done", "raised"}

\* The arguments after _extract_silent.
Given == _extract_silent(args).args

IsRequest(e) == e.ev # "sleep"
IsInvocation(e) == e.ev \in {"ensure", "send"}
IsSend(e) == e.ev = "send"

\* What the handler asked of Telegram, pauses left out; the requests that
\* begin the operation for an account (report and join begin with
\* _ensure_in_chat, spamacc sends); the send_message calls.
Asked == SelectSeq(trace, IsRequest)
Invocations == SelectSeq(trace, IsInvocation)
Sends == SelectSeq(trace, IsSend)

\* The target of invocation number k (from 1) of a fan-out, going through
\* the targets in order and starting over after the last.
InTurn(k) == targets[((k - 1) % Len(targets)) + 1]

\* How many invocations a completed fan-out is to make.
Due == IF command = "spamacc" THEN count ELSE Len(targets)

\* The handler is inside an iteration of its loop, past the iteration's
\* first request.
InsideIteration ==
    cpc \in {"entity", "report", "tell", "sleep", "round_sleep"}

\* The invocations made when `iter` iterations are over.
Begun == IF InsideIteration THEN iter + 1 ELSE iter

\* C11: in the report, join and spamacc fan-outs the operation is invoked
\* for the targeted accounts in roster order, each account's requests
\* completed before the next account's begin, and a failing operation
\* neither ends the handler nor keeps the later accounts from their turn:
\* a fan-out that has returned has made every invocation due.
C11_FanOutInOrder ==
    command \in {"report", "join", "spamacc"} =>
        /\ \A k \in 2..Len(targets) : targets[k - 1] < targets[k]
        /\ Len(Invocations) = Begun
        /\ \A k \in 1..Len(Invocations) : Invocations[k].acc = InTurn(k)
        /\ command # "spamacc" =>
              \A k \in 2..Len(Asked) : Asked[k - 1].acc <= Asked[k].acc
        /\ cpc = "raised" => trace = <<>>
        /\ (cpc = "done" /\ targets # <<>>) => Len(Invocations) = Due

\* Three accounts were targeted, the operation failed for the first and
\* was still invoked for the second and the third.
C11_Witness ==
    /\ command \in {"report", "join"}
    /\ cpc = "done"
    /\ Len(targets) = 3
    /\ Len(Invocations) = 3
    /\ ~Invocations[1].ok
    /\ Invocations[3].acc = targets[3]

\* Whether the operation on target number k succeeded: the account is in
\* the chat (for report and join) and none of its requests failed.
Invoked(k) == \E j \in 1..Len(Asked) : Asked[j].acc = targets[k]
OperationSucceeded(k) ==
    /\ Invoked(k)
    /\ \A j \in 1..Len(Asked) : Asked[j].acc = targets[k] => Asked[j].ok

\* C12: the summary of report and join says (ok, total) with total the
\* number of targeted accounts and ok the number of them whose operation
\* succeeded; an account whose report request or join attempt failed is
\* not counted.
C12_SummaryCounts ==
    (command \in {"report", "join"} /\ cpc = "done" /\ replies # <<>>
        /\ Last(replies).text \in {"report_done", "join_ok"}) =>
        /\ Last(replies).of = Len(targets)
        /\ Last(replies).num =
              Cardinality({k \in 1..Len(targets) : OperationSucceeded(k)})

\* C15: in spamacc send number k (from 0) goes out through
\* target_accounts[k mod len(target_accounts)], whether or not earlier
\* sends failed.
C15_RoundRobin ==
    command = "spamacc" =>
        \A k \in 1..Len(Sends) :
            Sends[k].acc = targets[((k - 1) % Len(targets)) + 1]

\* Two targets [a, b] and at least five sends, the first of which failed:
\* the senders are a, b, a, b, a.
C15_Witness ==
    /\ command = "spamacc"
    /\ cpc = "done"
    /\ Len(targets) = 2
    /\ Len(Sends) >= 5
    /\ ~Sends[1].ok
    /\ [k \in 1..5 |-> Sends[k].acc] =
          <<targets[1], targets[2], targets[1], targets[2], targets[1]>>

\* The sends attempted through target number k.
AttemptsOf(k) ==
    Cardinality({j \in 1..Len(Sends) : Sends[j].acc = targets[k]})

\* spamacc was given a digit-only last argument, text before it and a
\* non-empty roster.
SpamCounted ==
    /\ command = "spamacc"
    /\ Len(Given) >= 2
    /\ snapshot # <<>>
    /\ isdigit(Last(Given))

\* C16: spamacc makes as many send attempts as the digit-only count given
\* as its last argument says, 0 included, and the attempts of any two
\* targeted accounts differ by at most one.
C16_AttemptsEqualCount ==
    (SpamCounted /\ CommandFinished) =>
        /\ cpc = "done"
        /\ int(Last(Given)).ok
        /\ Len(Sends) = int(Last(Given)).value
        /\ \A j, k \in 1..Len(targets) :
              AttemptsOf(j) - AttemptsOf(k) \in {0 - 1, 0, 1}

\* say or join has come to look its selector up in the roster.
LooksUp ==
    \/ /\ command = "join"
       /\ snapshot # <<>>
       /\ Given # <<>>
    \/ /\ command = "say"
       /\ Len(Given) >= 2
       /\ LET rest == DropFirst(Given)
              counted == Len(rest) > 1 /\ isdigit(Last(rest))
          IN  /\ counted => int(Last(rest)).ok
              /\ ~NoText(IF counted THEN DropLast(rest) ELSE rest)

\* C17: when the selector given to say or join resolves to no roster
\* entry, the command answers with the not-found message that carries the
\* selector as typed, sends no message, makes no join or permission
\* request, and does nothing more.
C17_NotFoundEchoed ==
    (LooksUp /\ CommandFinished
        /\ _resolve_account(Given[1], snapshot).kind # "index") =>
        /\ cpc = "done"
        /\ replies = <<NotFound(Given[1])>>
        /\ trace = <<>>

\* C18: when the last argument of listacc, say, report, join or spamacc is
\* the token -s or s, the token is taken off the arguments, the command
\* sends no reply and deletes the triggering message.
C18_SilentMeansNoReply ==
    (CommandFinished /\ args # <<>> /\ Last(args) \in SilentTokens) =>
        /\ silent
        /\ replies = <<>>
        /\ deleted
(***************************************************************************)
(* Properties of the background tasks                                      *)
(***************************************************************************)
\* A task is inside the body of _check_self_update: it holds the lock and
\* awaits _fetch_remote or reload_module.
InBody(p) == upc[p] \in {"fetch", "reload"}

\* C19: at most one execution of the body of _check_self_update is in
\* progress at any time, and it is the one that holds _update_lock: the
\* start-up check, the accupd commands and the timer's check never overlap.
C19_OneUpdateAtATime ==
    /\ \A p, q \in Updaters : InBody(p) /\ InBody(q) => p = q
    /\ \A p \in Updaters : InBody(p) => _update_lock = p

\* The timer's check is in the body while the start-up check and an accupd
\* command wait for the lock.
C19_Witness ==
    /\ InBody(Timer)
    /\ upc[Startup] = "waiting"
    /\ upc[Manual(1)] = "waiting"

\* The timer's loop of AccountManager is alive: asleep, or in a check.
UpdateLoopAlive == upc[Timer] \in {"sleep", "waiting", "fetch", "reload"}

\* The loop of RouletteDaily is alive: asleep, or in a tick.
RouletteLoopAlive == rpc \in {"created", "sleep", "send1", "gap", "send2"}

\* C20: a failure inside a tick of a background loop is reported to no chat
\* and does not end the loop: once a tick of AccountManager's loop has failed
\* the loop is in its sleep, from which the next check starts, or that check
\* is already under way; likewise for RouletteDaily's loop and its next tick.
C20_LoopSurvivesFailure ==
    /\ ureport # "chat" /\ rreport # "chat"
    /\ ulast = "failed" => UpdateLoopAlive
    /\ rlast = "failed" => RouletteLoopAlive /\ rpc # "created"

\* A tick of the timer's loop began after a failed one.
UpdateTickAfterFailure == uagain /\ ureport = UpdateFailureReport

\* A tick of RouletteDaily's loop began after a failed one.
RouletteTickAfterFailure == ragain /\ rreport = RouletteFailureReport

\* A loop ran a tick after a tick of it had failed.
C20_Witness == UpdateTickAfterFailure \/ RouletteTickAfterFailure

(***************************************************************************)
(* Overlapping invocations of _refresh_accounts                            *)
(***************************************************************************)
\* An invocation has decided to re-query and has not stored its result yet:
\* it awaits a get_me() (lines 233-239).
Requerying(p) == call[p].pc = "await"

\* C21: a refresh is atomic: between the decision to re-query and the store
\* of the cache no other invocation runs, so at no time have two invocations
\* both decided to re-query without having stored.
C21_RefreshAtomic ==
    \A p, q \in Callers : Requerying(p) /\ Requerying(q) => p = q

(***************************************************************************)
(* Repeated invocations of _ensure_in_chat                                 *)
(***************************************************************************)
\* The requests that change something: joins, the export of an invite link
\* and the direct invite.
SideEffects == {"join_handle", "export", "join_link", "invite"}

\* The invocation before the current one returned True; nothing in the model
\* takes the account out of the chat.
Repeated == eruns >= 2 /\ eprev = RET_TRUE

\* C22: _ensure_in_chat is idempotent: after a call that returned True, the
\* next call for the same account and chat returns True and issues no join,
\* no invite-link export and no direct invite.
C22_Idempotent ==
    Repeated =>
        /\ \A k \in 1..Len(elog) : elog[k].req \notin SideEffects
        /\ EnsureFinished => eresult = RET_TRUE

(***************************************************************************)
(* The '@' marker of a handle selector                                     *)
(***************************************************************************)
\* s without one leading '@', if it has one.
WithoutOneMarker(s) == IF s # <<>> /\ Head(s) = "@" THEN Tail(s) ELSE s

\* The entries (1-based) whose handle is s itself, ignoring case.
WithHandleExactly(s, accs) ==
    {i \in 1..Len(accs) :
        /\ accs[i].user.username # <<>>
        /\ SameIgnoringCase(accs[i].user.username, s)}

\* C23: the handle step compares the selector without exactly one leading
\* '@', so a selector with two leading '@' resolves only to an entry whose
\* handle is the selector without its first '@'.
C23_OneMarkerStripped ==
    (pc = "done" /\ ReachesHandleStep(selector, accounts)) =>
        LET found == WithHandleExactly(WithoutOneMarker(selector), accounts)
        IN  resolved = IF found = {} THEN None ELSE Found(Least(found) - 1)

(***************************************************************************)
(* The pauses of spamacccmd                                                *)
(***************************************************************************)
\* The pauses the handler has made so far, in order, in milliseconds.
Pauses == SelectSeq(trace, LAMBDA e : e.ev = "sleep")

\* The handler is between two iterations of its loop, or past the loop.
BetweenIterations == cpc \in {"send", "ensure", "answer", "delete", "done"}

\* spamacccmd has reached its loop with `n` targets.
Spamming(n) ==
    command = "spamacc" /\ BetweenIterations /\ Len(targets) = n

\* C24: when spamacc targets exactly one account no pause is made, between
\* the sends or after them, whatever the count.
C24_NoPauseForOneAccount == Spamming(1) => Pauses = <<>>


\* The places in the trace of the sends, in order.
SendPlaces == SelectSeq([k \in 1..Len(trace) |-> k],
                        LAMBDA k : trace[k].ev = "send")

\* The pauses made after send number j (from 1) and before the next send.
PausesAfter(j) ==
    LET from == SendPlaces[j] + 1
        to == IF j < Len(SendPlaces) THEN SendPlaces[j + 1] - 1
              ELSE Len(trace)
    IN  SubSeq(trace, from, to)

\* Of these, the pauses beyond the pacing delay that follows every send when
\* more than one account takes part.
AdditionalPauses(j) ==
    IF Len(targets) > 1 /\ PausesAfter(j) # <<>> THEN Tail(PausesAfter(j))
    ELSE PausesAfter(j)

\* Send number j (from 1) completes a round over all the targets.
CompletesRound(j) == j % Len(targets) = 0

\* C25: in spamacc with a count above 3 one additional pause follows every
\* send that completes a round over the targets, and it is longer than the
\* pacing delay between sends; no additional pause follows any other send,
\* and none at all with a count of 3 or less.
C25_RoundPauseLonger ==
    (command = "spamacc" /\ BetweenIterations /\ targets # <<>>) =>
        \A j \in 1..Len(SendPlaces) :
            IF count > 3 /\ CompletesRound(j)
            THEN /\ Len(AdditionalPauses(j)) = 1
                 /\ AdditionalPauses(j)[1].ms > SPAM_PAUSE
            ELSE AdditionalPauses(j) = <<>>

(***************************************************************************)
(* Properties of RouletteDaily (SpecRoulette; C29 under SpecRouletteCmd)    *)
(***************************************************************************)
\* The loop's send_message calls of message m (1 or 2) for the minute mark
\* k that went through.
SentFor(m, k) ==
    SelectSeq(posted, LAMBDA e : e.msg = m /\ e.mark = k /\ e.ok)

\* C26: the loop sends each of the two messages at most once per minute
\* mark, over all the ticks of that minute and whatever sends fail.
C26_OncePerMark ==
    \A m \in {1, 2}, i \in 1..Len(Moments) : Len(SentFor(m, Moments[i])) <= 1


\* The loop hands a message to send_message: the first when a tick reaches
\* _send_pair, the second when the pause of line 91 is over.
LoopSends == rpc' # rpc /\ rpc' \in {"send1", "send2"}

\* C27: while the stored enabled flag is False (roffcmd has completed and
\* roncmd has not set it back) the loop sends no message.
C27_NoSendWhileDisabled == [][LoopSends => enabled]_vars


\* The digits 0 to 9.
PlainDigits == {"0", "1", "2", "3", "4", "5", "6", "7", "8", "9"}

\* The time of day a token of the form HH:MM stands for: one or two of the
\* digits 0 to 9, a colon, one or two of the digits 0 to 9, the hour in 0..23
\* and the minute in 0..59.  No time when the token has another form.
ClockTime(token) ==
    LET parts == split(token, ":")
        plain(p) == Len(p) \in {1, 2} /\ \A i \in 1..Len(p) : p[i] \in PlainDigits
    IN  IF Len(parts) = 2 /\ plain(parts[1]) /\ plain(parts[2])
        THEN ({DecValue(parts[1])} \cap (0..23))
                 \X ({DecValue(parts[2])} \cap (0..59))
        ELSE {}

\* The time of day a token stands for when each of its two parts is whatever
\* int() reads as an integer: blanks around a part, a sign, underscores
\* between digits and decimal digits outside ASCII are read too.
IntTime(token) ==
    LET parts == split(token, ":")
    IN  IF Len(parts) = 2 /\ int(parts[1]).ok /\ int(parts[2]).ok
        THEN ({int(parts[1]).value} \cap (0..23))
                 \X ({int(parts[2]).value} \cap (0..59))
        ELSE {}

\* The non-empty tokens of a text, blanks around them removed.
TokensOf(raw) ==
    SelectSeq([k \in 1..Len(split(raw, ",")) |-> strip(split(raw, ",")[k])],
              NotEmpty)

\* The text is a list of times written as two digits, a colon and two digits,
\* in strictly ascending order.
ZeroPaddedAscending(text) ==
    LET items == split(text, ",")
        at(k) == CHOOSE t \in ClockTime(items[k]) : TRUE
    IN  /\ \A k \in 1..Len(items) :
            /\ Len(items[k]) = 5
            /\ ClockTime(items[k]) # {}
        /\ \A k \in 1..(Len(items) - 1) :
            \/ at(k)[1] < at(k + 1)[1]
            \/ at(k)[1] = at(k + 1)[1] /\ at(k)[2] < at(k + 1)[2]

\* This step is rtimescmd.
RtimesStep == rcmds' # rcmds /\ spc' = spc /\ ranswer'.cmd = "rtimes"

\* What this step of rtimescmd did when Reads(token) is the set of times a
\* token stands for (empty when the token is not a time): invalid_time and
\* the schedule as it was for a text without a token or with a token that is
\* not a time; otherwise the given times stored sorted, without duplicates
\* and zero-padded, and the stored text parses to the same set of times.
Validates(Reads(_)) ==
    LET tokens == TokensOf(ranswer'.arg)
        given == UNION {Reads(tokens[k]) : k \in 1..Len(tokens)}
    IN  IF tokens = <<>> \/ \E k \in 1..Len(tokens) : Reads(tokens[k]) = {}
        THEN ranswer'.text = "invalid_time" /\ times' = times
        ELSE /\ ranswer'.text = "times_saved"
             /\ ranswer'.shown = times'
             /\ ZeroPaddedAscending(times')
             /\ _parse_times(times').ok
             /\ _parse_times(times').schedule = given

\* C29 as stated: rtimescmd answers invalid_time and leaves the configured
\* schedule as it was when its text is empty, has no non-empty token, or has
\* a token that is not HH:MM with the hour in 0..23 and the minute in 0..59;
\* otherwise it stores the given times as a sorted, duplicate-free,
\* zero-padded list, and parsing the stored text gives the same set of times.
C29_RejectsAllButHHMM == [][RtimesStep => Validates(ClockTime)]_vars

\* C29, amended: rtimescmd answers invalid_time and leaves the configured
\* schedule as it was when its text is empty, has no non-empty token, or has
\* a token that is not two parts around one colon which int() reads as an
\* hour in 0..23 and a minute in 0..59 (so "+9:05", "9 : 5", "1_0:00" and a
\* token in non-ASCII decimal digits are accepted); otherwise it stores the
\* given times as a sorted, duplicate-free list of times written as two
\* digits, a colon and two digits, and parsing the stored text gives the same
\* set of times.
C29_RtimesValidates == [][RtimesStep => Validates(IntTime)]_vars

\* rtimes 22:00,+9:59,2_2:0 was answered and 09:59,22:00 is the schedule.
C29_Witness ==
    /\ ranswer.cmd = "rtimes"
    /\ ranswer.arg = <<"2", "2", ":", "0", "0", ",", "+", "9", ":", "5", "9",
                       ",", "2", "_", "2", ":", "0">>
    /\ ranswer.text = "times_saved"
    /\ times = <<"0", "9", ":", "5", "9", ",", "2", "2", ":", "0", "0">>


(***************************************************************************)
(* Properties of the loop tasks (specification SpecLife)                   *)
(***************************************************************************)
\* The tasks that have not ended.
AliveLoops(tasks) == {k \in 1..Len(tasks) : tasks[k] # "done"}

\* C28: at most one _loop task of RouletteDaily and at most one
\* _auto_update_loop task of AccountManager is alive at any time, however
\* often client_ready is called, and AccountManager creates its task at most
\* once.
C28_OneLoopTask ==
    /\ Cardinality(AliveLoops(rtasks)) <= 1
    /\ Cardinality(AliveLoops(utasks)) <= 1
    /\ Len(utasks) <= 1

\* Both modules were made ready several times: RouletteDaily's first task
\* was cancelled and has ended and its second one runs, AccountManager has
\* its one task.
C28_Witness ==
    /\ readies.roulette = MaxReady
    /\ Len(rtasks) = 2 /\ rtasks[1] = "done" /\ rtasks[2] = "alive"
    /\ readies.manager >= 2 /\ readying = 0
    /\ Len(utasks) = 1


(***************************************************************************)
(* Properties of Genshin's saved UIDs (specification SpecGenshin)          *)
(***************************************************************************)
\* A step of endeluid with the argument `raw`.
EndeluidStep(raw) ==
    gcmds' # gcmds /\ ganswer'.cmd = "endeluid" /\ ganswer'.arg = raw

\* C30: endeluid removes the named alias from the stored alias map and
\* nothing else: every other alias keeps its UID, no alias appears, the
\* stored default UID is the same and so is what a missing or unknown token
\* resolves to (a UID that `enuid alias uid` made the default stays the
\* default when its alias is deleted); when the named alias is not stored,
\* the map is the same too.
C30_EndeluidFrame ==
    [][\A raw \in EndeluidArgs : EndeluidStep(raw) =>
        LET alias == lower(strip(raw))
        IN  /\ DOMAIN saved_uids' = DOMAIN saved_uids \ {alias}
            /\ \A a \in DOMAIN saved_uids' : saved_uids'[a] = saved_uids[a]
            /\ default_uid' = default_uid
            /\ _resolve_uid(<<>>)' = _resolve_uid(<<>>)
            /\ _resolve_uid(alias)' = _default_uid
            /\ alias \notin DOMAIN saved_uids => saved_uids' = saved_uids
      ]_vars

\* endeluid has deleted an alias whose UID `enuid alias uid` had made the
\* default: the UID is still the default, and another alias is still stored.
C30_Witness ==
    /\ ganswer.cmd = "endeluid" /\ ganswer.text = "deleted"
    /\ lower(strip(ganswer.arg)) \notin DOMAIN saved_uids
    /\ _default_uid = ganswer.shown
    /\ _resolve_uid(lower(strip(ganswer.arg))) = ganswer.shown
    /\ DOMAIN saved_uids # {}

====
